---- MODULE Spec2Model ----
(***************************************************************************)
(* Model of chess::Engine (fixed-depth minimax with alpha-beta pruning).   *)
(*                                                                         *)
(* The board is an external collaborator: the engine only queries it.      *)
(* Every answer of the collaborator (side to move, number of legal moves,  *)
(* check status, the evaluator's score of a depth-0 position) is an input  *)
(* drawn from a bounded set at the moment the code asks for it.  A         *)
(* position is identified by the sequence of move indices applied from     *)
(* the root, i.e. by the idx fields of the frames of the call stack.       *)
(***************************************************************************)
EXTENDS Integers, Sequences, FiniteSets, TLC

(* ------------------------------ bounds --------------------------------- *)
\* largest number of legal moves the collaborator enumerates in a position
MaxBranch == 2
\* longest game: a position MaxPly moves below the root has no legal moves
MaxPly == 3
\* depths handed to the constructor / setDepth range over 0..MaxDepthCfg
MaxDepthCfg == 3
\* static evaluations range over -MaxEval..MaxEval
MaxEval == 1
\* getBestMove is called at most MaxCalls times on the engine
MaxCalls == 2
\* a test position is a base position with at most MaxEdits pieces relocated
MaxEdits == 1

(* --------------------------- program constants ------------------------- *)
INT_MAX == 2147483647
INT_MIN == (-2147483647) - 1
MATE == 20000
DefaultDepth == 2

\* the depths handed to the constructor and to setDepth
DepthValues == 0..MaxDepthCfg
EvalValues == (-MaxEval)..MaxEval
Colors == {"WHITE", "BLACK"}
\* the callers that may hold an invocation of getBestMove on the one engine
Inv == {1, 2}
\* the caller of the synchronous specification
Main == CHOOSE i \in Inv : \A j \in Inv : i <= j
\* Move(): the default-constructed "no move" value; legal moves are 1..size
NoMove == 0
\* no load of nodesSearched is pending
NotLoaded == -1

Max(a, b) == IF a >= b THEN a ELSE b
Min(a, b) == IF a <= b THEN a ELSE b
Abs(a) == IF a >= 0 THEN a ELSE -a

VARIABLES
    maxDepth,       \* Engine::maxDepth
    nodesSearched,  \* Engine::nodesSearched
    startTime,      \* Engine::startTime, as the number of the call that set it
    pc,             \* per caller: "idle", "root" (inside getBestMove), "done"
    board,          \* per caller: the root position handed to getBestMove
    idx,            \* per caller: position of the root loop in legalMoves
    bestMove,       \* per caller: local bestMove
    bestScore,      \* per caller: local bestScore
    stack,          \* per caller: the active minimax calls, outermost first
    result,         \* per caller: the Move returned by getBestMove
    reported,       \* per caller: the diagnostics printed before returning
    scores,         \* history: the score minimax returned for each root move
    mates,          \* history: root moves whose resulting position is checkmate
    found,          \* history: <<ply, score>> of the checkmates minimax scored
    depthRead,      \* history: maxDepth as the invocation read it
    calls,          \* history: minimax calls made by this caller's invocation
    loaded,         \* per caller: nodesSearched as nodesSearched++ loaded it
    log,            \* history: what the board and the evaluator answered
                    \* for each position they were asked about
    visited,        \* history: per caller, the positions minimax was run on
    position,       \* the board handed to the evaluator
    edits,          \* the number of pieces relocated to set the board up
    terms,          \* the terms evaluate computed for the board
    kingTerms,      \* what its king-dependent terms charged and asked
    probes,         \* what its other terms examined, asked and charged
    mirrorTerms     \* the terms evaluate computed for its colour mirror

vars == <<maxDepth, nodesSearched, startTime, pc, board, idx, bestMove,
          bestScore, stack, result, reported, scores, mates, found,
          depthRead, calls, loaded, log, visited, position, edits, terms,
          kingTerms, probes, mirrorTerms>>

\* the state of the evaluator's test bench
evalVars == <<position, edits, terms, kingTerms, probes, mirrorTerms>>
\* the state of the engine and of its callers
searchVars == <<maxDepth, nodesSearched, startTime, pc, board, idx, bestMove,
                bestScore, stack, result, reported, scores, mates, found,
                depthRead, calls, loaded, log, visited>>

engineVars == <<maxDepth, nodesSearched, startTime>>
\* what only the steps of minimax change
callVars == <<found, calls, loaded>>
rootVars == <<board, idx, bestMove, bestScore, result, reported, scores, mates,
              depthRead>>

(* ------------------------------ helpers -------------------------------- *)
Top(s) == s[Len(s)]
Pop(s) == SubSeq(s, 1, Len(s) - 1)
SetTop(s, f) == [s EXCEPT ![Len(s)] = f]

\* board.generateLegalMoves().size() as the collaborator may answer it for a
\* position ply moves below the root
MoveCounts(ply) == IF ply >= MaxPly THEN {0} ELSE 0..MaxBranch

\* what a position with size legal moves is
KindOf(size, inCheck) ==
    IF size > 0 THEN "open" ELSE IF inCheck THEN "checkmate" ELSE "stalemate"

NoBoard == [pos |-> <<>>, side |-> "WHITE", size |-> 0, inCheck |-> FALSE]
NoReport == [nodes |-> 0, timer |-> 0, score |-> 0]

\* the initial bestScore with the two sides exchanged
InitBestScoreSwapped(side) == IF side = "WHITE" THEN INT_MAX ELSE INT_MIN

\* initial bestScore of getBestMove
InitBestScore(side) == IF side = "WHITE" THEN INT_MIN ELSE INT_MAX

\* the update test with non-strict comparisons
ImprovesOrTies(side, score, best) ==
    \/ side = "WHITE" /\ score >= best
    \/ side = "BLACK" /\ score <= best

\* the update test of getBestMove
Improves(side, score, best) ==
    \/ side = "WHITE" /\ score > best
    \/ side = "BLACK" /\ score < best

\* a mate score adjusted by the depth left instead of the distance covered
MateScoreByDepth(maximizingPlayer, depth) ==
    IF maximizingPlayer THEN (-MATE) + depth ELSE MATE - depth

\* a mate score with the signs of the two sides exchanged
MateScoreSwapped(maximizingPlayer, depth) ==
    IF maximizingPlayer THEN MATE - (maxDepth - depth)
                        ELSE (-MATE) + (maxDepth - depth)

\* a mate score that ignores the distance from the root
MateScoreUnadjusted(maximizingPlayer, depth) ==
    IF maximizingPlayer THEN -MATE ELSE MATE

\* the checkmate score of minimax
MateScore(maximizingPlayer, depth) ==
    IF maximizingPlayer THEN (-MATE) + (maxDepth - depth)
                        ELSE MATE - (maxDepth - depth)

\* a terminal score that does not ask for the check status
TerminalAlwaysMate(inCheck, maximizingPlayer, depth) ==
    MateScore(maximizingPlayer, depth)

\* the score of a position without legal moves
TerminalScore(inCheck, maximizingPlayer, depth) ==
    IF inCheck THEN MateScore(maximizingPlayer, depth) ELSE 0

\* a test that also gives up on a forced move
EmptyOrForced(size) == size <= 1

\* a test that never reports an empty list
NeverEmpty(size) == size < 0

\* legalMoves.empty()
Empty(size) == size = 0

\* the flag of the root's own side
RootFlagOwnSide(side) == side = "WHITE"

\* the maximizingPlayer flag getBestMove hands to minimax
RootFlag(side) == side # "WHITE"

\* the search depth handed over whole
RootDepthWhole(d) == d

\* the depth getBestMove hands to minimax
RootDepth(d) == d - 1

\* the loop over the root moves stopping one move short
RootMoreButLast(n, size) == n + 1 < size

\* the loop over the root moves has a move left
RootMore(n, size) == n < size

\* a cutoff taken one point early
CutoffOffByOne(alpha, beta) == beta <= alpha + 1

\* a cutoff that needs the window to be inverted
CutoffStrict(alpha, beta) == beta < alpha

\* the cutoff test of minimax
Cutoff(alpha, beta) == beta <= alpha

\* a fresh activation of minimax(board, depth, alpha, beta, maximizingPlayer).
\* pc is the activation's position ("enter", "loop", "ret"), size and idx are
\* legalMoves.size() and the loop's position in it, eval is maxEval / minEval
\* and, at "ret", the value returned.  Three fields record what the code does
\* not compute: kind is what the position is (open, checkmate, stalemate),
\* exact is its score when no cutoff is ever taken, and pruned tells whether
\* a cutoff left a move unsearched in this activation or below it.
\* board is the position the activation was handed, as the moves applied
\* from the root; generated and evaluated tell whether generateLegalMoves
\* and evaluator.evaluate have been called on it, and static is the value
\* evaluate returned.
Frame(b, depth, alpha, beta, maximizingPlayer) ==
    [pc |-> "enter", board |-> b, depth |-> depth, alpha |-> alpha,
     beta |-> beta, maximizingPlayer |-> maximizingPlayer, kind |-> "open",
     size |-> 0, idx |-> 0, eval |-> 0, exact |-> 0, pruned |-> FALSE,
     generated |-> FALSE, evaluated |-> FALSE, static |-> 0]

\* a move made on the board itself, with no copy taken
MakeMoveInPlace(b, move) ==
    [board |-> Append(b, move), testBoard |-> Append(b, move)]

\* Board testBoard = board; testBoard.makeMove(move);
MakeMoveOnCopy(b, move) ==
    [board |-> b, testBoard |-> Append(b, move)]

\* the base cases of minimax with checkmate and stalemate tested first
EnteredTerminalFirst(f, size, inCheck, v) ==
    LET kind == KindOf(size, inCheck)
        first == IF f.maximizingPlayer THEN INT_MIN ELSE INT_MAX
    IN IF Empty(size)
       THEN LET s == TerminalScore(inCheck, f.maximizingPlayer, f.depth)
            IN [f EXCEPT !.pc = "ret", !.kind = kind, !.generated = TRUE,
                         !.eval = s, !.exact = s]
       ELSE IF f.depth = 0
       THEN [f EXCEPT !.pc = "ret", !.kind = kind, !.generated = TRUE,
                      !.evaluated = TRUE, !.static = v,
                      !.eval = v, !.exact = v]
       ELSE [f EXCEPT !.pc = "loop", !.kind = kind, !.generated = TRUE,
                      !.size = size, !.eval = first, !.exact = first]

\* minimax from the depth test to the start of its loop, for a position
\* with size legal moves, check status inCheck and static evaluation v
Entered(f, size, inCheck, v) ==
    LET kind == KindOf(size, inCheck)
        first == IF f.maximizingPlayer THEN INT_MIN ELSE INT_MAX
    IN IF f.depth = 0
       THEN [f EXCEPT !.pc = "ret", !.kind = kind, !.evaluated = TRUE,
                      !.static = v, !.eval = v, !.exact = v]
       ELSE IF Empty(size)
       THEN LET s == TerminalScore(inCheck, f.maximizingPlayer, f.depth)
            IN [f EXCEPT !.pc = "ret", !.kind = kind, !.generated = TRUE,
                         !.eval = s, !.exact = s]
       ELSE [f EXCEPT !.pc = "loop", !.kind = kind, !.generated = TRUE,
                      !.size = size, !.eval = first, !.exact = first]

\* the scores a position ply moves below the root can have under plain
\* minimax when searched with the given depth
RECURSIVE SubtreeValues(_, _, _)
SubtreeValues(ply, depth, maximizingPlayer) ==
    IF depth = 0 THEN EvalValues
    ELSE {0, MateScore(maximizingPlayer, depth)} \cup
         (IF ply >= MaxPly THEN {}
          ELSE SubtreeValues(ply + 1, depth - 1, ~maximizingPlayer))

(* ----------------------------- Evaluator ------------------------------- *)
\* A board is a function from the squares 0..63 to pieces; square
\* rank * 8 + file is Position(file, rank), so that 0..63 in increasing
\* order is the order of the evaluator's scans (rank outside, file inside).
Squares == 0..63
Sq(file, rank) == rank * 8 + file
FileOf(s) == s % 8
RankOf(s) == s \div 8

\* Position::isValid
IsValid(file, rank) == file \in 0..7 /\ rank \in 0..7

PieceTypes == {"PAWN", "KNIGHT", "BISHOP", "ROOK", "QUEEN", "KING"}
\* the empty marker
NoPiece == [type |-> "NONE", color |-> "NONE"]
IsEmpty(piece) == piece.type = "NONE"
Opponent(color) == IF color = "WHITE" THEN "BLACK" ELSE "WHITE"

\* board.getPiece(Position(file, rank))
GetPiece(b, file, rank) == b.at[Sq(file, rank)]

\* the fixed values of the pieces
PieceValues ==
    [PAWN |-> 100, KNIGHT |-> 320, BISHOP |-> 330, ROOK |-> 500,
     QUEEN |-> 900, KING |-> 20000]

\* Piece::getValue
GetValue(piece) == PieceValues[piece.type]

\* the pieces of the first rank in file order
BackRank ==
    <<"ROOK", "KNIGHT", "BISHOP", "QUEEN", "KING", "BISHOP", "KNIGHT", "ROOK">>

\* the starting position
StartPosition ==
    [s \in Squares |->
        IF RankOf(s) = 0
        THEN [type |-> BackRank[FileOf(s) + 1], color |-> "WHITE"]
        ELSE IF RankOf(s) = 1 THEN [type |-> "PAWN", color |-> "WHITE"]
        ELSE IF RankOf(s) = 6 THEN [type |-> "PAWN", color |-> "BLACK"]
        ELSE IF RankOf(s) = 7
        THEN [type |-> BackRank[FileOf(s) + 1], color |-> "BLACK"]
        ELSE NoPiece]

\* the piece on from is put on to, replacing what stood there
Relocated(pieces, from, to) ==
    [pieces EXCEPT ![to] = pieces[from], ![from] = NoPiece]

RECURSIVE RelocatedAll(_, _)
RelocatedAll(pieces, moves) ==
    IF moves = <<>> THEN pieces
    ELSE RelocatedAll(Relocated(pieces, moves[1][1], moves[1][2]),
                      Tail(moves))

\* both sides have castled short, developed the king's knight and bishop
\* and pushed the f-pawn one square
ShieldPosition ==
    RelocatedAll(StartPosition,
        <<<<Sq(6, 0), Sq(7, 2)>>, <<Sq(5, 0), Sq(3, 2)>>,
          <<Sq(4, 0), Sq(6, 0)>>, <<Sq(7, 0), Sq(5, 0)>>,
          <<Sq(5, 1), Sq(5, 2)>>,
          <<Sq(6, 7), Sq(7, 5)>>, <<Sq(5, 7), Sq(3, 5)>>,
          <<Sq(4, 7), Sq(6, 7)>>, <<Sq(7, 7), Sq(5, 7)>>,
          <<Sq(5, 6), Sq(5, 5)>>>>)

\* the positions the edits start from
Bases == {StartPosition, ShieldPosition}

\* the colour-mirrored position: colours swapped, rank r becomes 7 - r
Mirror(pieces) ==
    [s \in Squares |->
        LET piece == pieces[Sq(FileOf(s), 7 - RankOf(s))]
        IN IF IsEmpty(piece) THEN piece
           ELSE [piece EXCEPT !.color = Opponent(piece.color)]]

\* the sum of f[lo] .. f[hi]
RECURSIVE SumRange(_, _, _)
SumRange(f, lo, hi) ==
    IF lo > hi THEN 0
    ELSE IF lo = hi THEN f[lo]
    ELSE SumRange(f, lo, (lo + hi) \div 2)
         + SumRange(f, (lo + hi) \div 2 + 1, hi)

\* the sum of f[0] .. f[n]
SumTo(f, n) == SumRange(f, 0, n)

\* the sum of f over all squares
SumSquares(f) == SumTo(f, 63)

\* the number of squares in the set S
Count(S) == Cardinality(S)

\* the sign of a contribution to the score: bonuses of WHITE count up,
\* bonuses of BLACK count down
Sign(color) == IF color = "WHITE" THEN 1 ELSE -1

\* a material term that counts the pieces of both sides alike
evaluateMaterialUnsigned(b) ==
    SumSquares([s \in Squares |->
        IF IsEmpty(b.at[s]) THEN 0 ELSE GetValue(b.at[s])])

\* Evaluator::evaluateMaterial
evaluateMaterial(b) ==
    SumSquares([s \in Squares |->
        IF IsEmpty(b.at[s]) THEN 0
        ELSE IF b.at[s].color = "BLACK" THEN -GetValue(b.at[s])
        ELSE GetValue(b.at[s])])

\* the squares holding a king of the colour
Kings(b, color) == {s \in Squares : b.at[s].type = "KING" /\ b.at[s].color = color}

\* a penalty for every king that has left its home square
EarlyKingAtOffHomeSquare(b, s) ==
    IF b.at[s].type # "KING" THEN 0
    ELSE IF b.at[s].color = "WHITE"
    THEN IF s # Sq(4, 0) THEN -50 - RankOf(s) * 10 ELSE 0
    ELSE IF s # Sq(4, 7) THEN 50 + (7 - RankOf(s)) * 10 ELSE 0

\* what evaluateEarlyKingMovement adds for the king on s
EarlyKingAt(b, s) ==
    IF b.at[s].type # "KING" THEN 0
    ELSE IF b.at[s].color = "WHITE"
    THEN IF s # Sq(4, 0) /\ RankOf(s) > 0
         THEN -50 - RankOf(s) * 10 ELSE 0
    ELSE IF s # Sq(4, 7) /\ RankOf(s) < 7
         THEN 50 + (7 - RankOf(s)) * 10 ELSE 0

\* the part of evaluateEarlyKingMovement that is about the kings of a colour
EarlyKingFor(b, color) ==
    SumSquares([s \in Squares |->
        IF b.at[s].color = color THEN EarlyKingAt(b, s) ELSE 0])

\* Evaluator::evaluateEarlyKingMovement
evaluateEarlyKingMovement(b) ==
    SumSquares([s \in Squares |-> EarlyKingAt(b, s)])

\* an own rook stands on the corner
RookOn(b, file, rank, color) ==
    LET rook == GetPiece(b, file, rank)
    IN ~IsEmpty(rook) /\ rook.type = "ROOK" /\ rook.color = color

\* what evaluateCastling adds for the king on s
CastlingAt(b, s) ==
    IF b.at[s].type # "KING" THEN 0
    ELSE LET color == IF b.at[s].color = "WHITE" THEN "WHITE" ELSE "BLACK"
             home == IF color = "WHITE" THEN 0 ELSE 7
             bonus == IF s = Sq(6, home) THEN 40
                      ELSE IF s = Sq(2, home) THEN 40
                      ELSE IF s = Sq(4, home)
                      THEN (IF RookOn(b, 7, home, color) THEN 15 ELSE 0)
                           + (IF RookOn(b, 0, home, color) THEN 10 ELSE 0)
                      ELSE 0
         IN Sign(color) * bonus

\* the part of evaluateCastling that is about the kings of a colour
CastlingFor(b, color) ==
    SumSquares([s \in Squares |->
        IF b.at[s].color = color THEN CastlingAt(b, s) ELSE 0])

\* Evaluator::evaluateCastling
evaluateCastling(b) == SumSquares([s \in Squares |-> CastlingAt(b, s)])

\* the squares a scan of the whole board hands to getPiece
ScanAsked == {<<FileOf(s), RankOf(s)>> : s \in Squares}

\* the squares evaluateCastling and evaluateEarlyKingMovement hand to
\* getPiece besides those of the scan: for a king at home, its corners
CastlingAsked(b) ==
    (IF Sq(4, 0) \in Kings(b, "WHITE") THEN {<<7, 0>>, <<0, 0>>} ELSE {})
    \cup (IF Sq(4, 7) \in Kings(b, "BLACK") THEN {<<7, 7>>, <<0, 7>>} ELSE {})

\* a piece counted as developed by the terms that look at home squares
DevelopedFromHome(b, s) ==
    LET piece == b.at[s]
        home == IF piece.color = "WHITE" THEN 0 ELSE 7
    IN /\ ~IsEmpty(piece)
       /\ piece.type # "PAWN" /\ piece.type # "KING"
       /\ \/ piece.type = "KNIGHT" /\ FileOf(s) # 1 /\ FileOf(s) # 6
          \/ piece.type = "BISHOP" /\ RankOf(s) # home
          \/ piece.type = "ROOK" /\ RankOf(s) # home
          \/ piece.type = "QUEEN" /\ (FileOf(s) # 3 \/ RankOf(s) # home)

\* developedPieces of evaluateKingPawnShield, evaluateUndefendedPawns and
\* evaluateMinorPieceDevelopmentForDefense
DevelopedPieces(b) == Count({s \in Squares : DevelopedFromHome(b, s)})

\* a king search that reports the castled square when there is no king
FindKingOrCastled(b, color) ==
    LET white == {s \in Squares : ~IsEmpty(b.at[s]) /\ b.at[s].type = "KING"
                                      /\ b.at[s].color = "WHITE"}
        other == {s \in Squares : ~IsEmpty(b.at[s]) /\ b.at[s].type = "KING"
                                      /\ b.at[s].color # "WHITE"}
        kings == IF color = "WHITE" THEN white ELSE other
        last == CHOOSE s \in kings : \A t \in kings : t <= s
    IN IF kings = {} THEN <<6, IF color = "WHITE" THEN 0 ELSE 7>>
       ELSE <<FileOf(last), RankOf(last)>>

\* whiteKingPos / blackKingPos of evaluateKingPawnShield: Position(-1, -1)
\* unless the scan finds a king, and then the last one it finds
FindKing(b, color) ==
    LET white == {s \in Squares : ~IsEmpty(b.at[s]) /\ b.at[s].type = "KING"
                                      /\ b.at[s].color = "WHITE"}
        other == {s \in Squares : ~IsEmpty(b.at[s]) /\ b.at[s].type = "KING"
                                      /\ b.at[s].color # "WHITE"}
        kings == IF color = "WHITE" THEN white ELSE other
        last == CHOOSE s \in kings : \A t \in kings : t <= s
    IN IF kings = {} THEN <<-1, -1>>
       ELSE <<FileOf(last), RankOf(last)>>

\* the ranks evaluateKingPawnShield scans beyond the pushed f-pawn
AttackRanks(color) == IF color = "WHITE" THEN 3..7 ELSE 0..4

\* the test that lets the scan look at the g-file
OnDiagonal(color, attackRank) ==
    IF color = "WHITE" THEN attackRank - 2 = 0 ELSE 7 - attackRank = 2

\* the king of the colour stands on the g-file of its back rank
KingOnG(b, color) ==
    LET king == FindKing(b, color)
    IN /\ IsValid(king[1], king[2])
       /\ king[2] = (IF color = "WHITE" THEN 0 ELSE 7)
       /\ king[1] = 6

\* the f-pawn of the colour stands one square ahead of its start
FPawnPushed(b, color) ==
    LET piece == GetPiece(b, 5, IF color = "WHITE" THEN 2 ELSE 5)
    IN ~IsEmpty(piece) /\ piece.type = "PAWN" /\ piece.color = color

\* an enemy piece of one of the two types stands on the square
EnemyOn(b, file, rank, color, types) ==
    LET piece == GetPiece(b, file, rank)
    IN ~IsEmpty(piece) /\ piece.color = Opponent(color)
       /\ piece.type \in types

\* the part of evaluateKingPawnShield that is about the king of a colour,
\* once the term has found the position to be an opening
ShieldFor(b, color) ==
    IF KingOnG(b, color) /\ FPawnPushed(b, color)
    THEN -Sign(color) *
         (80
          + 50 * Count({r \in AttackRanks(color) :
                           EnemyOn(b, 5, r, color, {"QUEEN", "ROOK"})})
          + 60 * Count({r \in AttackRanks(color) :
                           /\ OnDiagonal(color, r)
                           /\ EnemyOn(b, 6, r, color, {"QUEEN", "BISHOP"})}))
    ELSE 0

\* the part of evaluateKingPawnShield charged to a colour
ShieldOf(b, color) ==
    IF DevelopedPieces(b) > 6 THEN 0 ELSE ShieldFor(b, color)

\* Evaluator::evaluateKingPawnShield
evaluateKingPawnShield(b) ==
    IF DevelopedPieces(b) > 6 THEN 0
    ELSE ShieldFor(b, "WHITE") + ShieldFor(b, "BLACK")

\* the squares evaluateKingPawnShield hands to getPiece besides those of
\* its scans
ShieldAskedFor(b, color) ==
    IF KingOnG(b, color)
    THEN {<<5, IF color = "WHITE" THEN 2 ELSE 5>>}
         \cup (IF FPawnPushed(b, color)
               THEN {<<5, r>> : r \in AttackRanks(color)}
                    \cup {<<6, r>> : r \in {q \in AttackRanks(color) :
                                               OnDiagonal(color, q)}}
               ELSE {})
    ELSE {}

ShieldAsked(b) ==
    IF DevelopedPieces(b) > 6 THEN {}
    ELSE ShieldAskedFor(b, "WHITE") \cup ShieldAskedFor(b, "BLACK")

\* the moves of the knight and of the king, and the lines of the sliders
KnightJumps ==
    {<<1, 2>>, <<2, 1>>, <<-1, 2>>, <<-2, 1>>,
     <<1, -2>>, <<2, -1>>, <<-1, -2>>, <<-2, -1>>}
Diagonals == {<<1, 1>>, <<1, -1>>, <<-1, 1>>, <<-1, -1>>}
Straights == {<<1, 0>>, <<-1, 0>>, <<0, 1>>, <<0, -1>>}
KingSteps == Diagonals \cup Straights

\* the squares at the offsets from (file, rank) that are on the board
Offset(file, rank, offsets) ==
    {Sq(file + d[1], rank + d[2]) :
        d \in {e \in offsets : IsValid(file + e[1], rank + e[2])}}

\* the squares from (file, rank) along direction d up to and including the
\* first occupied one
RECURSIVE Ray(_, _, _, _)
Ray(pieces, file, rank, d) ==
    IF ~IsValid(file + d[1], rank + d[2]) THEN {}
    ELSE IF IsEmpty(pieces[Sq(file + d[1], rank + d[2])])
    THEN {Sq(file + d[1], rank + d[2])}
         \cup Ray(pieces, file + d[1], rank + d[2], d)
    ELSE {Sq(file + d[1], rank + d[2])}

\* the squares the piece on s attacks: the rules of the game, as the board
\* applies them in isUnderAttack and generatePseudoLegalMoves
Reach(pieces, s) ==
    LET file == FileOf(s)
        rank == RankOf(s)
        type == pieces[s].type
        lines == IF type = "BISHOP" THEN Diagonals
                 ELSE IF type = "ROOK" THEN Straights
                 ELSE Diagonals \cup Straights
    IN CASE type = "PAWN" ->
                Offset(file, rank,
                       IF pieces[s].color = "WHITE"
                       THEN {<<-1, 1>>, <<1, 1>>}
                       ELSE {<<-1, -1>>, <<1, -1>>})
         [] type = "KNIGHT" -> Offset(file, rank, KnightJumps)
         [] type = "KING" -> Offset(file, rank, KingSteps)
         [] type \in {"BISHOP", "ROOK", "QUEEN"} ->
                UNION {Ray(pieces, file, rank, d) : d \in lines}
         [] OTHER -> {}

\* the squares attacked by the pieces of a colour
AttackedBy(pieces, color) ==
    UNION {Reach(pieces, s) :
              s \in {x \in Squares : pieces[x].color = color}}

\* the Board object handed to the evaluator: the pieces on the squares and,
\* for each colour, the squares isUnderAttack reports as attacked by it
Board(pieces) ==
    [at |-> pieces,
     attacked |-> [WHITE |-> AttackedBy(pieces, "WHITE"),
                   BLACK |-> AttackedBy(pieces, "BLACK")]]

\* the pieces of a colour that attack the square
Attackers(b, t, byColor) ==
    {s \in Squares : b.at[s].color = byColor /\ t \in Reach(b.at, s)}

\* board.isUnderAttack(pos, byColor)
IsUnderAttack(b, t, byColor) == t \in b.attacked[byColor]

\* a pawn of the colour stands on the square
PawnOn(b, file, rank, color) ==
    LET piece == GetPiece(b, file, rank)
    IN ~IsEmpty(piece) /\ piece.type = "PAWN" /\ piece.color = color

\* d4, d5, e4, e5
CenterSquares == {<<3, 3>>, <<3, 4>>, <<4, 3>>, <<4, 4>>}

\* the rank of the pawn evaluatePawnDoubleMoves examines on a file: the
\* first one its scan meets, and both scans run from rank 0 to rank 7
ExaminedPawn(b, file, color) ==
    LET ranks == {r \in 0..7 : PawnOn(b, file, r, color)}
    IN IF ranks = {} THEN -1
       ELSE CHOOSE r \in ranks : \A q \in ranks : r <= q

\* a penalty whose last extra is charged on every file
DoubleMovePenaltyAnyFile(b, file, rank, color) ==
    LET start == IF color = "WHITE" THEN 1 ELSE 6
        ahead == IF color = "WHITE" THEN 1 ELSE -1
        advance == (rank - start) * ahead
        controlsCenter ==
            \E c \in CenterSquares :
                Abs(file - c[1]) = 1 /\ c[2] = rank + ahead
    IN IF advance > 0 /\ advance > 2
          /\ ~IsUnderAttack(b, Sq(file, rank), Opponent(color))
       THEN 20 + (IF file = 3 \/ file = 4 THEN 10 ELSE 0)
               + (IF ~controlsCenter THEN 10 ELSE 0)
       ELSE 0

\* what the examined pawn costs its side
DoubleMovePenalty(b, file, rank, color) ==
    LET start == IF color = "WHITE" THEN 1 ELSE 6
        ahead == IF color = "WHITE" THEN 1 ELSE -1
        advance == (rank - start) * ahead
        controlsCenter ==
            \E c \in CenterSquares :
                Abs(file - c[1]) = 1 /\ c[2] = rank + ahead
    IN IF advance > 0 /\ advance > 2
          /\ ~IsUnderAttack(b, Sq(file, rank), Opponent(color))
       THEN 20 + (IF file = 3 \/ file = 4 THEN 10 ELSE 0)
               + (IF ~controlsCenter /\ file \in {2, 3, 4, 5} THEN 10 ELSE 0)
       ELSE 0

\* the share of one file and one side in evaluatePawnDoubleMoves
DoubleMoveFor(b, file, color) ==
    LET rank == ExaminedPawn(b, file, color)
    IN IF rank = -1 THEN 0
       ELSE -Sign(color) * DoubleMovePenalty(b, file, rank, color)

\* Evaluator::evaluatePawnDoubleMoves
evaluatePawnDoubleMoves(b) ==
    IF Count({s \in Squares : ~IsEmpty(b.at[s])}) < 28 THEN 0
    ELSE SumTo([file \in 0..7 |-> DoubleMoveFor(b, file, "WHITE")
                                  + DoubleMoveFor(b, file, "BLACK")], 7)

\* pieceCount >= 28: evaluatePawnDoubleMoves goes on to scan the files
DoubleMovesActive(b) == ~(Count({s \in Squares : ~IsEmpty(b.at[s])}) < 28)

\* the pawn evaluatePawnDoubleMoves examines for a side on a file (rank -1:
\* none) and what it charges the side for it
PawnProbe(b, file, color) ==
    LET rank == ExaminedPawn(b, file, color)
    IN IF DoubleMovesActive(b) /\ rank # -1
       THEN [rank |-> rank,
             charged |-> DoubleMovePenalty(b, file, rank, color)]
       ELSE [rank |-> -1, charged |-> 0]

\* developedPieces of evaluateCenterControl and evaluateEarlyFPawnMoves
OffBackRank(b) ==
    Count({s \in Squares :
              /\ ~IsEmpty(b.at[s])
              /\ b.at[s].type # "PAWN" /\ b.at[s].type # "KING"
              /\ \/ b.at[s].color = "WHITE" /\ RankOf(s) > 0
                 \/ b.at[s].color = "BLACK" /\ RankOf(s) < 7})

\* Evaluator::evaluateCenterControl
evaluateCenterControl(b) ==
    LET isOpening == OffBackRank(b) < 7
        occupy(c) ==
            LET piece == GetPiece(b, c[1], c[2])
                bonus == (IF piece.type = "PAWN" THEN 20 ELSE 10)
                         * (IF isOpening THEN 2 ELSE 1)
            IN IF IsEmpty(piece) THEN 0
               ELSE Sign(piece.color) *
                    (bonus - (IF IsUnderAttack(b, Sq(c[1], c[2]),
                                               Opponent(piece.color))
                              THEN 5 ELSE 0))
        attackBonus == IF isOpening THEN 15 ELSE 5
        attack(c) ==
            (IF IsUnderAttack(b, Sq(c[1], c[2]), "WHITE")
             THEN attackBonus ELSE 0)
            - (IF IsUnderAttack(b, Sq(c[1], c[2]), "BLACK")
               THEN attackBonus ELSE 0)
    IN occupy(<<3, 3>>) + occupy(<<3, 4>>) + occupy(<<4, 3>>)
       + occupy(<<4, 4>>) + attack(<<3, 3>>) + attack(<<3, 4>>)
       + attack(<<4, 3>>) + attack(<<4, 4>>)

\* Evaluator::evaluateEarlyQueenDevelopment
evaluateEarlyQueenDevelopment(b) ==
    SumSquares([s \in Squares |->
        IF b.at[s].type # "QUEEN" THEN 0
        ELSE LET home == IF b.at[s].color = "WHITE" THEN 0 ELSE 7
                 distance == Abs(FileOf(s) - 3) + Abs(RankOf(s) - home)
             IN IF s # Sq(3, home)
                THEN -Sign(IF b.at[s].color = "WHITE" THEN "WHITE" ELSE "BLACK")
                     * (15 + distance * 2)
                ELSE 0])

\* Evaluator::evaluateEarlyFPawnMoves
evaluateEarlyFPawnMoves(b) ==
    LET side(color) ==
            LET start == IF color = "WHITE" THEN 1 ELSE 6
                ahead == IF color = "WHITE" THEN 1 ELSE -1
            IN IF IsEmpty(GetPiece(b, 5, start))
               THEN (IF PawnOn(b, 5, start + ahead, color) THEN 30 ELSE 0)
                    + (IF PawnOn(b, 5, start + 2 * ahead, color)
                       THEN 60 ELSE 0)
               ELSE 0
    IN IF ~(OffBackRank(b) < 7) THEN 0
       ELSE side("BLACK") - side("WHITE")

\* the enemy pawn threats evaluatePiecePositions charges to the knight on
\* (file, rank): a pawn one push away from attacking it (15), a pawn next to
\* its rank ahead (25), a pawn beside it that can push (20)
KnightThreats(b, file, rank, color) ==
    LET enemy == Opponent(color)
        pawnDirection == IF enemy = "WHITE" THEN 1 ELSE -1
        push(fo) ==
            IF /\ IsValid(file + fo, rank - pawnDirection - pawnDirection)
               /\ IsValid(file + fo, rank - pawnDirection)
               /\ PawnOn(b, file + fo, rank - pawnDirection - pawnDirection,
                         enemy)
               /\ IsEmpty(GetPiece(b, file + fo, rank - pawnDirection))
               /\ ~IsUnderAttack(b, Sq(file + fo, rank - pawnDirection),
                                 color)
            THEN 15 ELSE 0
        adjacent(fo) ==
            IF /\ IsValid(file + fo, rank - pawnDirection)
               /\ PawnOn(b, file + fo, rank - pawnDirection, enemy)
            THEN 25 ELSE 0
        ready(fo) ==
            IF /\ IsValid(file + fo, rank)
               /\ IsValid(file + fo, rank + pawnDirection)
               /\ PawnOn(b, file + fo, rank, enemy)
               /\ IsEmpty(GetPiece(b, file + fo, rank + pawnDirection))
            THEN 20 ELSE 0
    IN push(-1) + adjacent(-1) + push(1) + adjacent(1) + ready(-1) + ready(1)

\* pawn checks of a knight that test only the square the pawn would attack
\* from before they look at the square it stands on
KnightAskedUnguarded(b, file, rank, color) ==
    LET enemy == Opponent(color)
        pawnDirection == IF enemy = "WHITE" THEN 1 ELSE -1
        push(fo) ==
            IF IsValid(file + fo, rank - pawnDirection)
            THEN {<<file + fo, rank - pawnDirection - pawnDirection>>}
            ELSE {}
        adjacent(fo) ==
            IF IsValid(file + fo, rank - pawnDirection)
            THEN {<<file + fo, rank - pawnDirection>>} ELSE {}
        ready(fo) ==
            IF IsValid(file + fo, rank)
            THEN {<<file + fo, rank>>} ELSE {}
    IN push(-1) \cup adjacent(-1) \cup push(1) \cup adjacent(1)
       \cup ready(-1) \cup ready(1)

\* the squares evaluatePiecePositions hands to getPiece and isUnderAttack
\* for the knight on (file, rank), besides the knight's own square
KnightAsked(b, file, rank, color) ==
    LET enemy == Opponent(color)
        pawnDirection == IF enemy = "WHITE" THEN 1 ELSE -1
        push(fo) ==
            IF /\ IsValid(file + fo, rank - pawnDirection - pawnDirection)
               /\ IsValid(file + fo, rank - pawnDirection)
            THEN {<<file + fo, rank - pawnDirection - pawnDirection>>}
                 \cup (IF PawnOn(b, file + fo,
                                 rank - pawnDirection - pawnDirection, enemy)
                       THEN {<<file + fo, rank - pawnDirection>>} ELSE {})
            ELSE {}
        adjacent(fo) ==
            IF IsValid(file + fo, rank - pawnDirection)
            THEN {<<file + fo, rank - pawnDirection>>} ELSE {}
        ready(fo) ==
            IF /\ IsValid(file + fo, rank)
               /\ IsValid(file + fo, rank + pawnDirection)
            THEN {<<file + fo, rank>>}
                 \cup (IF PawnOn(b, file + fo, rank, enemy)
                       THEN {<<file + fo, rank + pawnDirection>>} ELSE {})
            ELSE {}
    IN push(-1) \cup adjacent(-1) \cup push(1) \cup adjacent(1)
       \cup ready(-1) \cup ready(1)

\* Evaluator::evaluatePiecePositions
evaluatePiecePositions(b) ==
    SumSquares([s \in Squares |->
        IF b.at[s].type # "KNIGHT" THEN 0
        ELSE LET file == FileOf(s)
                 rank == RankOf(s)
                 color == IF b.at[s].color = "WHITE" THEN "WHITE" ELSE "BLACK"
                 distFromCenter ==
                     Min(Abs(file - 3), Abs(file - 4))
                     + Min(Abs(rank - 3), Abs(rank - 4))
                 positionBonus == Max(3 - distFromCenter, 0)
             IN Sign(color) *
                (positionBonus - KnightThreats(b, file, rank, color))])

\* the rank counted from the colour's own back rank
FromHome(color, rank) == IF color = "WHITE" THEN rank ELSE 7 - rank

\* a knight or a bishop on a square it starts the game on
OnStartSquare(b, s) ==
    /\ FromHome(b.at[s].color, RankOf(s)) = 0
    /\ \/ b.at[s].type = "KNIGHT" /\ FileOf(s) \in {1, 6}
       \/ b.at[s].type = "BISHOP" /\ FileOf(s) \in {2, 5}
       \/ b.at[s].type = "ROOK" /\ FileOf(s) \in {0, 7}

\* the development squares evaluatePieceDevelopment rewards
OnGoodSquare(b, s) ==
    LET rank == FromHome(b.at[s].color, RankOf(s))
    IN \/ b.at[s].type = "KNIGHT" /\ rank = 2 /\ FileOf(s) \in {2, 3, 4, 5}
       \/ b.at[s].type = "BISHOP" /\ rank = 2 /\ FileOf(s) \in {1, 2, 5, 6}
       \/ b.at[s].type = "BISHOP" /\ rank = 1 /\ FileOf(s) \in {3, 4}

\* whitePawnsUnderAttack / blackPawnsUnderAttack
PawnsUnderAttack(b, color) ==
    \E s \in Squares :
        /\ ~IsEmpty(b.at[s]) /\ b.at[s].type = "PAWN" /\ b.at[s].color = color
        /\ IsUnderAttack(b, s, Opponent(color))

\* Evaluator::evaluatePieceDevelopment
evaluatePieceDevelopment(b) ==
    LET undeveloped(color) ==
            Count({s \in Squares :
                      /\ b.at[s].color = color
                      /\ b.at[s].type \in {"KNIGHT", "BISHOP"}
                      /\ OnStartSquare(b, s)})
        firstPass(color) ==
            -Sign(color) * undeveloped(color)
                * (IF PawnsUnderAttack(b, color) THEN 80 ELSE 40)
        piece(s) ==
            LET color == b.at[s].color
                isUnderAttack == IsUnderAttack(b, s, Opponent(color))
                reward == (IF b.at[s].type = "KNIGHT" THEN 50 ELSE 45)
                          + (IF PawnsUnderAttack(b, color) THEN 30 ELSE 0)
            IN IF IsEmpty(b.at[s]) \/ OnStartSquare(b, s) THEN 0
               ELSE IF b.at[s].type \in {"KNIGHT", "BISHOP"}
               THEN IF OnGoodSquare(b, s) THEN Sign(color) * reward
                    ELSE IF ~isUnderAttack THEN -Sign(color) * 20 ELSE 0
               ELSE IF b.at[s].type = "ROOK"
               THEN IF ~isUnderAttack THEN -Sign(color) * 15 ELSE 0
               ELSE 0
    IN firstPass("WHITE") + firstPass("BLACK")
       + SumSquares([s \in Squares |-> piece(s)])

\* the squares board.generatePseudoLegalMoves lists as targets for the
\* knight, bishop, rook, queen or king on s
MoveTargets(b, s) ==
    {t \in Reach(b.at, s) : b.at[t].color # b.at[s].color}

\* a piece on t counts as defending the pawn on p
IsDefendingMove(t, p) ==
    LET fileDiff == Abs(FileOf(t) - FileOf(p))
        rankDiff == Abs(RankOf(t) - RankOf(p))
    IN \/ fileDiff <= 1 /\ rankDiff <= 1
       \/ fileDiff = 1 /\ rankDiff = 2
       \/ fileDiff = 2 /\ rankDiff = 1

\* c3 .. f6
IsCentral(t) == FileOf(t) \in 2..5 /\ RankOf(t) \in 2..5

\* a pawn that is attacked and not defended stands on s
NeedsDefense(b, s) ==
    /\ ~IsEmpty(b.at[s]) /\ b.at[s].type = "PAWN"
    /\ IsUnderAttack(b, s, Opponent(b.at[s].color))
    /\ ~IsUnderAttack(b, s, b.at[s].color)

\* whitePawnsNeedingDefense / blackPawnsNeedingDefense
PawnsNeedingDefense(b, color) ==
    {s \in Squares : b.at[s].color = color /\ NeedsDefense(b, s)}

\* Evaluator::evaluatePotentialDefenders.  The bonus of a piece is decided
\* by the first safe defending move in the order generatePseudoLegalMoves
\* lists them; when a piece has such moves both to central and to other
\* squares, centralFirst tells which kind the board lists first.
evaluatePotentialDefenders(b, pawnPos, pawnColor, centralFirst) ==
    SumSquares([s \in Squares |->
        LET piece == b.at[s]
            moves == {t \in MoveTargets(b, s) :
                         /\ IsDefendingMove(t, pawnPos)
                         /\ ~IsUnderAttack(b, t, Opponent(pawnColor))}
            central == IF \A t \in moves : IsCentral(t) THEN TRUE
                       ELSE IF \A t \in moves : ~IsCentral(t) THEN FALSE
                       ELSE centralFirst
            pieceBonus == CASE piece.type = "KNIGHT" -> 70
                            [] piece.type = "BISHOP" -> 65
                            [] piece.type = "ROOK" -> 30
                            [] piece.type = "QUEEN" -> 10
                            [] OTHER -> 0
        IN IF IsEmpty(piece) \/ piece.color # pawnColor
              \/ piece.type = "PAWN" \/ moves = {}
           THEN 0
           ELSE pieceBonus
                + (IF piece.type \in {"KNIGHT", "BISHOP"}
                      /\ OnStartSquare(b, s) THEN 40 ELSE 0)
                + (IF central THEN 25 ELSE 0)])

\* what evaluateUndefendedPawns adds back for the attackers of the pawn on s
\* that the pawn's side can capture
CaptureBonus(b, s) ==
    LET pawnColor == b.at[s].color
        attackers == Attackers(b, s, Opponent(pawnColor))
    IN 100 * Count({a \in attackers : IsUnderAttack(b, a, pawnColor)})

\* Evaluator::evaluateUndefendedPawns
evaluateUndefendedPawns(b, centralFirst) ==
    IF DevelopedPieces(b) > 6 THEN 0
    ELSE SumSquares([s \in Squares |->
        IF NeedsDefense(b, s)
        THEN LET pawnColor == b.at[s].color
             IN Sign(pawnColor) *
                (-120
                 + evaluatePotentialDefenders(b, s, pawnColor, centralFirst)
                 + CaptureBonus(b, s))
        ELSE 0])

\* Evaluator::evaluateMinorPieceDevelopmentForDefense
evaluateMinorPieceDevelopmentForDefense(b) ==
    LET side(color) ==
            LET pawns == PawnsNeedingDefense(b, color)
                bonus(s) ==
                    SumSquares([t \in Squares |->
                        IF /\ t \in MoveTargets(b, s)
                           /\ \E p \in pawns : IsDefendingMove(t, p)
                           /\ ~IsUnderAttack(b, t, Opponent(color))
                        THEN 35 + (IF IsCentral(t) THEN 15 ELSE 0)
                        ELSE 0])
            IN IF pawns = {} THEN 0
               ELSE SumSquares([s \in Squares |->
                       IF /\ b.at[s].color = color
                          /\ b.at[s].type \in {"KNIGHT", "BISHOP"}
                          /\ OnStartSquare(b, s)
                       THEN bonus(s) ELSE 0])
    IN IF DevelopedPieces(b) > 6 THEN 0
       ELSE side("WHITE") - side("BLACK")

\* Evaluator::evaluateMobility, evaluatePawnStructure, evaluateKingSafety:
\* stubs, and evaluate does not call them
evaluateMobility(b) == 0
evaluatePawnStructure(b) == 0
evaluateKingSafety(b) == 0

\* an evaluate that sums the terms of the table only
TermsTableOnly(b, centralFirst) ==
    LET material == evaluateMaterial(b)
        center == evaluateCenterControl(b)
        placement == evaluatePiecePositions(b)
        queen == evaluateEarlyQueenDevelopment(b)
        development == evaluatePieceDevelopment(b)
        earlyKing == evaluateEarlyKingMovement(b)
        castling == evaluateCastling(b)
        doubleMoves == evaluatePawnDoubleMoves(b)
        undefended == evaluateUndefendedPawns(b, centralFirst)
        shield == evaluateKingPawnShield(b)
        minorDefense == evaluateMinorPieceDevelopmentForDefense(b)
        fPawn == evaluateEarlyFPawnMoves(b)
    IN [material |-> material, center |-> center, placement |-> placement,
        queen |-> queen, development |-> development,
        earlyKing |-> earlyKing, castling |-> castling,
        doubleMoves |-> doubleMoves, undefended |-> undefended,
        shield |-> shield, minorDefense |-> minorDefense, fPawn |-> fPawn,
        total |-> material + center + placement + queen + development
                  + earlyKing + castling + doubleMoves + undefended
                  + shield + fPawn]

\* the terms of Evaluator::evaluate on a board, and their sum
Terms(b, centralFirst) ==
    LET material == evaluateMaterial(b)
        center == evaluateCenterControl(b)
        placement == evaluatePiecePositions(b)
        queen == evaluateEarlyQueenDevelopment(b)
        development == evaluatePieceDevelopment(b)
        earlyKing == evaluateEarlyKingMovement(b)
        castling == evaluateCastling(b)
        doubleMoves == evaluatePawnDoubleMoves(b)
        undefended == evaluateUndefendedPawns(b, centralFirst)
        shield == evaluateKingPawnShield(b)
        minorDefense == evaluateMinorPieceDevelopmentForDefense(b)
        fPawn == evaluateEarlyFPawnMoves(b)
    IN [material |-> material, center |-> center, placement |-> placement,
        queen |-> queen, development |-> development,
        earlyKing |-> earlyKing, castling |-> castling,
        doubleMoves |-> doubleMoves, undefended |-> undefended,
        shield |-> shield, minorDefense |-> minorDefense, fPawn |-> fPawn,
        total |-> material + center + placement + queen + development
                  + earlyKing + castling + doubleMoves + undefended
                  + shield + minorDefense + fPawn]

\* for the three king-dependent terms, what they charge to each side and
\* the squares they hand to getPiece besides those of their scans
KingTerms(b) ==
    [side |-> [color \in Colors |->
                  [earlyKing |-> EarlyKingFor(b, color),
                   castling |-> CastlingFor(b, color),
                   shield |-> ShieldOf(b, color)]],
     asked |-> CastlingAsked(b) \cup ShieldAsked(b)]

\* for the knights, what the pawn checks of evaluatePiecePositions charge
\* each of them and the squares they hand to the board; for the files,
\* what evaluatePawnDoubleMoves examines and charges; for the pawns
\* evaluateUndefendedPawns finds attacked and undefended, what it adds back
Probes(b, centralFirst) ==
    [knights |->
        [s \in {x \in Squares : b.at[x].type = "KNIGHT"} |->
            [threats |-> KnightThreats(b, FileOf(s), RankOf(s), b.at[s].color),
             asked |-> KnightAsked(b, FileOf(s), RankOf(s), b.at[s].color)]],
     doubleMovesActive |-> DoubleMovesActive(b),
     pawns |-> [color \in Colors |->
                   [file \in 0..7 |-> PawnProbe(b, file, color)]],
     undefended |->
        [s \in {x \in Squares : DevelopedPieces(b) <= 6
                                    /\ NeedsDefense(b, x)} |->
            [defenders |-> evaluatePotentialDefenders(b, s, b.at[s].color,
                                                      centralFirst),
             capture |-> CaptureBonus(b, s)]]]

\* nothing evaluated yet
NoTerms == [total |-> 0]

(* ------------------------------ initial state -------------------------- *)
EngineInit ==
    /\ maxDepth \in DepthValues \cup {DefaultDepth}
    /\ nodesSearched = 0
    /\ startTime = 0
    /\ pc = [i \in Inv |-> "idle"]
    /\ board = [i \in Inv |-> NoBoard]
    /\ idx = [i \in Inv |-> 0]
    /\ bestMove = [i \in Inv |-> NoMove]
    /\ bestScore = [i \in Inv |-> 0]
    /\ stack = [i \in Inv |-> <<>>]
    /\ result = [i \in Inv |-> NoMove]
    /\ reported = [i \in Inv |-> NoReport]
    /\ scores = [i \in Inv |-> <<>>]
    /\ mates = [i \in Inv |-> {}]
    /\ found = [i \in Inv |-> {}]
    /\ depthRead = [i \in Inv |-> 0]
    /\ calls = [i \in Inv |-> 0]
    /\ loaded = [i \in Inv |-> NotLoaded]
    /\ log = <<>>
    /\ visited = [i \in Inv |-> {}]

\* the engine with an evaluator that is not exercised on its own
Init ==
    /\ EngineInit
    /\ position = StartPosition
    /\ edits = 0
    /\ terms = NoTerms
    /\ kingTerms = NoTerms
    /\ probes = NoTerms
    /\ mirrorTerms = NoTerms

(* ------------------------------ Engine --------------------------------- *)
\* void setDepth(int depth)
SetDepth(i, d) ==
    /\ pc[i] \in {"idle", "done"}
    /\ maxDepth' = d
    /\ UNCHANGED <<nodesSearched, startTime, pc, stack>>
    /\ UNCHANGED callVars
    /\ UNCHANGED rootVars

\* a reset that leaves the counter as it is
NoReset(n) == n

\* the body of resetNodesSearched
AfterReset(n) == 0

\* a call that leaves the counter alone
NotIncremented(cur) == cur

\* the value nodesSearched++ stores after loading cur
Incremented(cur) == cur + 1

\* void resetNodesSearched()
ResetNodesSearched(i) ==
    /\ pc[i] \in {"idle", "done"}
    /\ nodesSearched' = AfterReset(nodesSearched)
    /\ UNCHANGED <<maxDepth, startTime, pc, stack>>
    /\ UNCHANGED callVars
    /\ UNCHANGED rootVars

\* getBestMove, from entry to the first iteration of the loop over legalMoves
GetBestMove(i, side, size, inCheck) ==
    /\ pc[i] \in {"idle", "done"}
    /\ startTime < MaxCalls
    /\ nodesSearched' = AfterReset(nodesSearched)
    /\ startTime' = startTime + 1
    /\ board' = [board EXCEPT ![i] =
                    [pos |-> <<>>, side |-> side, size |-> size,
                     inCheck |-> inCheck]]
    /\ idx' = [idx EXCEPT ![i] = 0]
    /\ scores' = [scores EXCEPT ![i] = <<>>]
    /\ mates' = [mates EXCEPT ![i] = {}]
    /\ found' = [found EXCEPT ![i] = {}]
    /\ depthRead' = [depthRead EXCEPT ![i] = maxDepth]
    /\ calls' = [calls EXCEPT ![i] = 0]
    /\ UNCHANGED loaded
    /\ stack' = [stack EXCEPT ![i] = <<>>]
    /\ reported' = [reported EXCEPT ![i] = NoReport]
    /\ result' = [result EXCEPT ![i] = NoMove]
    /\ IF Empty(size)
       THEN /\ pc' = [pc EXCEPT ![i] = "done"]
            /\ bestMove' = [bestMove EXCEPT ![i] = NoMove]
            /\ bestScore' = [bestScore EXCEPT ![i] = 0]
       ELSE /\ bestMove' = [bestMove EXCEPT ![i] = 1]
            /\ bestScore' = [bestScore EXCEPT ![i] = InitBestScore(side)]
            /\ pc' = [pc EXCEPT ![i] = "root"]
    /\ UNCHANGED maxDepth

\* one turn of the loop over the root moves: the next move is applied to a
\* copy of the board and minimax is called on it; after the last move the
\* diagnostics are printed and bestMove is returned
RootNext(i) ==
    /\ pc[i] = "root"
    /\ stack[i] = <<>>
    /\ IF RootMore(idx[i], board[i].size)
       THEN LET made == MakeMoveOnCopy(board[i].pos, idx[i] + 1)
            IN /\ idx' = [idx EXCEPT ![i] = idx[i] + 1]
               /\ board' = [board EXCEPT ![i].pos = made.board]
               /\ stack' = [stack EXCEPT ![i] =
                      <<Frame(made.testBoard, RootDepth(maxDepth), INT_MIN,
                              INT_MAX, RootFlag(board[i].side))>>]
               /\ calls' = [calls EXCEPT ![i] = calls[i] + 1]
               /\ UNCHANGED <<pc, result, reported>>
       ELSE /\ pc' = [pc EXCEPT ![i] = "done"]
            /\ result' = [result EXCEPT ![i] = bestMove[i]]
            /\ reported' = [reported EXCEPT ![i] =
                   [nodes |-> nodesSearched, timer |-> startTime,
                    score |-> bestScore[i]]]
            /\ UNCHANGED <<board, idx, stack, calls>>
    /\ UNCHANGED <<bestMove, bestScore, scores, mates, depthRead>>
    /\ UNCHANGED <<found, loaded>>
    /\ UNCHANGED engineVars

\* minimax, from entry to the first iteration of its loop: the node counter,
\* the depth-0 base case, move generation, checkmate and stalemate
MinimaxEnter(i, size, inCheck, v, cur) ==
    /\ pc[i] = "root"
    /\ stack[i] # <<>>
    /\ cur # NotLoaded
    /\ loaded' = [loaded EXCEPT ![i] = NotLoaded]
    /\ LET f == Top(stack[i])
           kind == KindOf(size, inCheck)
       IN /\ f.pc = "enter"
          /\ nodesSearched' = Incremented(cur)
          /\ UNCHANGED calls
          /\ stack' = [stack EXCEPT ![i] =
                SetTop(stack[i], Entered(f, size, inCheck, v))]
          /\ found' = [found EXCEPT ![i] =
                IF f.depth # 0 /\ Empty(size) /\ inCheck
                THEN found[i] \cup
                     {<<Len(stack[i]),
                        TerminalScore(inCheck, f.maximizingPlayer, f.depth)>>}
                ELSE found[i]]
    /\ UNCHANGED <<maxDepth, startTime, pc>>
    /\ UNCHANGED rootVars

\* the load of nodesSearched++, when another caller's step may come between
\* it and the store
LoadCount(i) ==
    /\ pc[i] = "root"
    /\ stack[i] # <<>>
    /\ Top(stack[i]).pc = "enter"
    /\ loaded[i] = NotLoaded
    /\ loaded' = [loaded EXCEPT ![i] = nodesSearched]
    /\ UNCHANGED <<pc, stack, found, calls>>
    /\ UNCHANGED engineVars
    /\ UNCHANGED rootVars

\* one turn of the loop of minimax: the next move is applied to a copy of
\* the board and minimax recurses on it with the flag flipped
MinimaxLoop(i) ==
    /\ pc[i] = "root"
    /\ stack[i] # <<>>
    /\ LET f == Top(stack[i])
           made == MakeMoveOnCopy(f.board, f.idx + 1)
       IN /\ f.pc = "loop"
          /\ f.idx < f.size
          /\ stack' = [stack EXCEPT ![i] =
                Append(SetTop(stack[i], [f EXCEPT !.idx = f.idx + 1,
                                                  !.board = made.board]),
                       Frame(made.testBoard, f.depth - 1, f.alpha, f.beta,
                             ~f.maximizingPlayer))]
          /\ calls' = [calls EXCEPT ![i] = calls[i] + 1]
    /\ UNCHANGED <<pc, found, loaded>>
    /\ UNCHANGED engineVars
    /\ UNCHANGED rootVars

\* the caller of a returning minimax(…) inside minimax: running best, window
\* update, cutoff test and loop condition.  w is the plain-minimax score of
\* the best sibling a cutoff leaves unsearched.
AfterChild(p, c, ply, w) ==
    LET eval == c.eval
        best == IF p.maximizingPlayer THEN Max(p.eval, eval)
                                      ELSE Min(p.eval, eval)
        alpha == IF p.maximizingPlayer THEN Max(p.alpha, eval) ELSE p.alpha
        beta == IF p.maximizingPlayer THEN p.beta ELSE Min(p.beta, eval)
        seen == IF p.maximizingPlayer THEN Max(p.exact, c.exact)
                                      ELSE Min(p.exact, c.exact)
        cut == Cutoff(alpha, beta)
        rest == IF p.maximizingPlayer THEN Max(seen, w) ELSE Min(seen, w)
    IN [p EXCEPT !.eval = best, !.alpha = alpha, !.beta = beta,
                 !.exact = IF cut /\ p.idx < p.size THEN rest ELSE seen,
                 !.pruned = p.pruned \/ c.pruned \/ (cut /\ p.idx < p.size),
                 !.pc = IF cut \/ p.idx = p.size THEN "ret" ELSE "loop"]

\* the plain-minimax scores of the siblings of the returning call
UnsearchedValues(i) ==
    IF Len(stack[i]) >= 2
    THEN SubtreeValues(Len(stack[i]), Top(stack[i]).depth,
                       Top(stack[i]).maximizingPlayer)
    ELSE {}

\* minimax returns to minimax
MinimaxReturn(i, w) ==
    /\ pc[i] = "root"
    /\ Len(stack[i]) >= 2
    /\ LET c == Top(stack[i])
           rest == Pop(stack[i])
           p == Top(rest)
           ply == Len(rest)
       IN /\ c.pc = "ret"
          /\ stack' = [stack EXCEPT ![i] =
                          SetTop(rest, AfterChild(p, c, ply, w))]
    /\ UNCHANGED pc
    /\ UNCHANGED callVars
    /\ UNCHANGED engineVars
    /\ UNCHANGED rootVars

\* minimax returns to getBestMove: the best move so far is updated
RootReturn(i) ==
    /\ pc[i] = "root"
    /\ Len(stack[i]) = 1
    /\ LET c == Top(stack[i])
           score == c.eval
       IN /\ c.pc = "ret"
          /\ scores' = [scores EXCEPT ![i] = Append(scores[i], score)]
          /\ mates' = [mates EXCEPT ![i] =
                IF c.kind = "checkmate" THEN mates[i] \cup {idx[i]}
                                        ELSE mates[i]]
          /\ IF Improves(board[i].side, score, bestScore[i])
             THEN /\ bestScore' = [bestScore EXCEPT ![i] = score]
                  /\ bestMove' = [bestMove EXCEPT ![i] = idx[i]]
             ELSE UNCHANGED <<bestScore, bestMove>>
          /\ stack' = [stack EXCEPT ![i] = <<>>]
    /\ UNCHANGED <<pc, board, idx, result, reported, depthRead>>
    /\ UNCHANGED callVars
    /\ UNCHANGED engineVars

(* --------------------------- specifications ---------------------------- *)
\* getBestMove has returned to caller i
Done(i) == pc[i] = "done"

Step(i) ==
    \/ \E d \in DepthValues : SetDepth(i, d)
    \/ ResetNodesSearched(i)
    \/ \E side \in Colors, size \in MoveCounts(0), inCheck \in BOOLEAN :
          GetBestMove(i, side, size, inCheck)
    \/ RootNext(i)
    \/ \E size \in MoveCounts(Len(stack[i])), inCheck \in BOOLEAN,
          v \in EvalValues : MinimaxEnter(i, size, inCheck, v, nodesSearched)
    \/ MinimaxLoop(i)
    \/ \E w \in UnsearchedValues(i) : MinimaxReturn(i, w)
    \/ RootReturn(i)

\* one caller: the synchronous, single-threaded use of the engine
Next == Step(Main) /\ UNCHANGED <<log, visited>> /\ UNCHANGED evalVars
Spec == Init /\ [][Next]_vars

\* two callers share one engine, constructed with depth 1, and their
\* getBestMove calls interleave; the unsynchronised nodesSearched++ is a load
\* and a store.  At depth 1 every minimax call is a depth-0 evaluation, so
\* the loop of minimax takes no step.  The positions are quiet ones: WHITE
\* to move, nobody in check, every reply open.
ConcStep(i) ==
    \/ \E size \in MoveCounts(0) : GetBestMove(i, "WHITE", size, FALSE)
    \/ RootNext(i)
    \/ LoadCount(i)
    \/ \E v \in EvalValues : MinimaxEnter(i, 1, FALSE, v, loaded[i])
    \/ RootReturn(i)

InitConc == Init /\ maxDepth = 1
NextConc ==
    /\ \E i \in Inv : ConcStep(i)
    /\ UNCHANGED <<log, visited>>
    /\ UNCHANGED evalVars
SpecConc == InitConc /\ [][NextConc]_vars

\* what generateLegalMoves, isInCheck and evaluate answer for one position.
\* The board and the evaluator are functions of the position, so a position
\* asked about before gets the answer it got then.  An activation with
\* depth 0 asks only for the evaluation, one with depth left only for the
\* moves and the check status.
Answers(i) ==
    LET f == Top(stack[i])
        all == IF f.depth = 0
               THEN {[size |-> 0, inCheck |-> FALSE, v |-> v] :
                        v \in EvalValues}
               ELSE {[size |-> n, inCheck |-> c, v |-> 0] :
                        n \in MoveCounts(Len(stack[i])), c \in BOOLEAN}
    IN IF f.board \in DOMAIN log THEN {log[f.board]} \cap all ELSE all

\* the same engine is asked twice, one call after the other, for the best
\* move of the same position at the same depth
DetGetBestMove(i) ==
    IF i = Main
    THEN /\ pc[i] = "idle"
         /\ \E side \in Colors, size \in MoveCounts(0), inCheck \in BOOLEAN :
               GetBestMove(i, side, size, inCheck)
    ELSE /\ pc[i] = "idle"
         /\ Done(Main)
         /\ GetBestMove(i, board[Main].side, board[Main].size,
                        board[Main].inCheck)

DetStep(i) ==
    \/ DetGetBestMove(i) /\ UNCHANGED log
    \/ RootNext(i) /\ UNCHANGED log
    \/ /\ pc[i] = "root" /\ stack[i] # <<>>
       /\ \E a \in Answers(i) :
             /\ MinimaxEnter(i, a.size, a.inCheck, a.v, nodesSearched)
             /\ log' = (Top(stack[i]).board :> a) @@ log
    \/ MinimaxLoop(i) /\ UNCHANGED log
    \/ (\E w \in UnsearchedValues(i) : MinimaxReturn(i, w)) /\ UNCHANGED log
    \/ RootReturn(i) /\ UNCHANGED log

\* the engine is constructed with depth 1 or with the default depth
InitDet == Init /\ maxDepth \in {1, DefaultDepth}
NextDet ==
    /\ \E i \in Inv : (i = Main \/ Done(Main)) /\ DetStep(i)
    /\ UNCHANGED visited
    /\ UNCHANGED evalVars
SpecDet == InitDet /\ [][NextDet]_vars

\* the caller of a returning minimax(…) in a search whose loop has no
\* cutoff test: running best, window update and loop condition
AfterChildPlain(p, c) ==
    LET eval == c.eval
        best == IF p.maximizingPlayer THEN Max(p.eval, eval)
                                      ELSE Min(p.eval, eval)
        alpha == IF p.maximizingPlayer THEN Max(p.alpha, eval) ELSE p.alpha
        beta == IF p.maximizingPlayer THEN p.beta ELSE Min(p.beta, eval)
        seen == IF p.maximizingPlayer THEN Max(p.exact, c.exact)
                                      ELSE Min(p.exact, c.exact)
    IN [p EXCEPT !.eval = best, !.alpha = alpha, !.beta = beta,
                 !.exact = seen,
                 !.pruned = p.pruned \/ c.pruned,
                 !.pc = IF p.idx = p.size THEN "ret" ELSE "loop"]

\* minimax returns to minimax in the search without cutoffs
MinimaxReturnPlain(i) ==
    /\ pc[i] = "root"
    /\ Len(stack[i]) >= 2
    /\ LET c == Top(stack[i])
           rest == Pop(stack[i])
           p == Top(rest)
       IN /\ c.pc = "ret"
          /\ stack' = [stack EXCEPT ![i] = SetTop(rest, AfterChildPlain(p, c))]
    /\ UNCHANGED pc
    /\ UNCHANGED callVars
    /\ UNCHANGED engineVars
    /\ UNCHANGED rootVars

\* the caller that runs the search without cutoffs
Plain == CHOOSE i \in Inv : i # Main

\* the second search is asked for the position and depth of the first
PlainGetBestMove(i) ==
    IF i = Main
    THEN /\ pc[i] = "idle"
         /\ \E side \in Colors, size \in MoveCounts(0) :
               GetBestMove(i, side, size, FALSE)
    ELSE /\ pc[i] = "idle"
         /\ Done(Main)
         /\ GetBestMove(i, board[Main].side, board[Main].size,
                        board[Main].inCheck)

\* the answers for the positions of these searches: nobody is in check and
\* the evaluator does not answer below zero
PlainAnswers(i) == {a \in Answers(i) : ~a.inCheck /\ a.v >= 0}

\* the same position is searched twice at the same depth with the same move
\* order and the same answers of the board and the evaluator: first by
\* getBestMove as it is, then by the same search with the cutoff tests of
\* minimax taken out
PlainStep(i) ==
    \/ PlainGetBestMove(i) /\ UNCHANGED <<log, visited>>
    \/ RootNext(i) /\ UNCHANGED <<log, visited>>
    \/ /\ pc[i] = "root" /\ stack[i] # <<>>
       /\ \E a \in PlainAnswers(i) :
             /\ MinimaxEnter(i, a.size, a.inCheck, a.v, nodesSearched)
             /\ log' = (Top(stack[i]).board :> a) @@ log
             /\ visited' = [visited EXCEPT
                               ![i] = @ \cup {Top(stack[i]).board}]
    \/ MinimaxLoop(i) /\ UNCHANGED <<log, visited>>
    \/ /\ i = Main
       /\ \E w \in UnsearchedValues(i) : MinimaxReturn(i, w)
       /\ UNCHANGED <<log, visited>>
    \/ /\ i = Plain
       /\ MinimaxReturnPlain(i)
       /\ UNCHANGED <<log, visited>>
    \/ RootReturn(i) /\ UNCHANGED <<log, visited>>

\* the engine is constructed with any of the depths
InitPlain == Init
NextPlain ==
    /\ \E i \in Inv : (i = Main \/ Done(Main)) /\ PlainStep(i)
    /\ UNCHANGED evalVars
SpecPlain == InitPlain /\ [][NextPlain]_vars

\* a test position is set up: a piece is taken from one square and put on
\* another, capturing what stood there
EditPosition(from, to) ==
    /\ terms = NoTerms
    /\ edits < MaxEdits
    /\ ~IsEmpty(position[from])
    /\ from # to
    /\ position' = Relocated(position, from, to)
    /\ edits' = edits + 1
    /\ UNCHANGED <<terms, kingTerms, probes, mirrorTerms>>
    /\ UNCHANGED searchVars

\* evaluator.evaluate(board), on the position and on its colour mirror
Evaluate ==
    /\ terms = NoTerms
    /\ \E centralFirst \in BOOLEAN :
          /\ terms' = Terms(Board(position), centralFirst)
          /\ kingTerms' = KingTerms(Board(position))
          /\ probes' = Probes(Board(position), centralFirst)
          /\ mirrorTerms' = Terms(Board(Mirror(position)), centralFirst)
    /\ UNCHANGED <<position, edits>>
    /\ UNCHANGED searchVars

\* the evaluator alone, on test positions
InitEval ==
    /\ EngineInit
    /\ maxDepth = DefaultDepth
    /\ position \in Bases
    /\ edits = 0
    /\ terms = NoTerms
    /\ kingTerms = NoTerms
    /\ probes = NoTerms
    /\ mirrorTerms = NoTerms
NextEval ==
    \/ \E from \in Squares, to \in Squares : EditPosition(from, to)
    \/ Evaluate
SpecEval == InitEval /\ [][NextEval]_vars

(* ------------------------------- claims -------------------------------- *)
\* a minimax call made by getBestMove itself is about to return
AtRootReturn(i) ==
    pc[i] = "root" /\ Len(stack[i]) = 1 /\ Top(stack[i]).pc = "ret"

\* C1: the score a minimax call started with the full window returns with
\* pruning equals the plain-minimax score of the same position (the score
\* over all its moves, the ones a cutoff skipped included).
C1_AlphaBetaCorrect ==
    AtRootReturn(Main) => Top(stack[Main]).eval = Top(stack[Main]).exact

C1_Witness ==
    /\ AtRootReturn(Main)
    /\ Top(stack[Main]).pruned
    /\ Top(stack[Main]).eval = Top(stack[Main]).exact

\* C2: among the root moves whose minimax score equals the score of the move
\* getBestMove returns, the returned move is the first in generation order;
\* and no root move has a score that is strictly better for the side to move.
C2_TieBreak ==
    Done(Main) /\ ~Empty(board[Main].size) =>
        /\ result[Main] \in 1..board[Main].size
        /\ Len(scores[Main]) = board[Main].size
        /\ \A j \in 1..board[Main].size :
              /\ scores[Main][j] = scores[Main][result[Main]] => result[Main] <= j
              /\ board[Main].side = "WHITE" =>
                     scores[Main][j] <= scores[Main][result[Main]]
              /\ board[Main].side = "BLACK" =>
                     scores[Main][j] >= scores[Main][result[Main]]

C2_Witness ==
    /\ Done(Main)
    /\ board[Main].size = 2
    /\ scores[Main][1] = scores[Main][2]
    /\ result[Main] = 1

\* C3: with exactly one legal move at the root, getBestMove returns that
\* move whatever score minimax gave it.
C3_SingleMove ==
    Done(Main) /\ board[Main].size = 1 => result[Main] = 1

C3_Witness ==
    /\ Done(Main)
    /\ board[Main].size = 1
    /\ board[Main].side = "WHITE"
    /\ scores[Main] = <<(-MATE) + 2>>
    /\ result[Main] = 1

\* C4: with no legal move at the root, getBestMove returns the default Move
\* and has made no minimax call (the node counter is still 0), whether the
\* root is in check (checkmate) or not (stalemate).
C4_NoLegalMoves ==
    Done(Main) /\ board[Main].size = 0 =>
        /\ result[Main] = NoMove
        /\ nodesSearched = 0
        /\ calls[Main] = 0
        /\ scores[Main] = <<>>

C4_Witness ==
    /\ Done(Main)
    /\ board[Main].size = 0
    /\ board[Main].inCheck
    /\ startTime = 2
    /\ result[Main] = NoMove
    /\ nodesSearched = 0

\* the activations of minimax that have produced their return value
Returning(i) ==
    {k \in 1..Len(stack[i]) : stack[i][k].pc = "ret"}

\* C5 as stated: a checkmate position reached at a ply not beyond the
\* configured search depth (search depth at least the mate distance) is
\* scored as a mate of that distance, more extreme than any mate one ply
\* further from the root.
C5_Original ==
    \A k \in Returning(Main) :
        stack[Main][k].kind = "checkmate" /\ k <= depthRead[Main] =>
            Abs(stack[Main][k].eval) > MATE - (k + 1)

\* C5, amended: of two checkmates minimax has scored during one getBestMove,
\* the one fewer plies from the root has the strictly larger magnitude, and
\* a checkmate position reached with depth left (search depth strictly
\* greater than the mate distance) is scored MATE - ply, more extreme than
\* any mate further from the root.
C5_MateDistance ==
    /\ \A a \in found[Main], b \in found[Main] :
          a[1] < b[1] => Abs(a[2]) > Abs(b[2])
    /\ \A k \in Returning(Main) :
          stack[Main][k].kind = "checkmate" /\ stack[Main][k].depth # 0 =>
              /\ Abs(stack[Main][k].eval) = MATE - k
              /\ Abs(stack[Main][k].eval) > MATE - (k + 1)

C5_Witness ==
    /\ depthRead[Main] = 3
    /\ \E a \in found[Main], b \in found[Main] :
          a[1] = 1 /\ b[1] = 2 /\ Abs(a[2]) > Abs(b[2])
    /\ \E k \in Returning(Main) :
          stack[Main][k].kind = "checkmate" /\ stack[Main][k].depth # 0

\* C6 as stated: WHITE to move with a mate-in-1: the returned move delivers
\* checkmate and its score is the mate formula at ply distance 0, MATE.
C6_Original ==
    Done(Main) /\ board[Main].side = "WHITE" /\ mates[Main] # {} =>
        /\ result[Main] \in mates[Main]
        /\ reported[Main].score = MATE

\* C6, amended: WHITE to move with a mate-in-1 and a configured depth of at
\* least 2: the returned move delivers checkmate and its score is the mate
\* formula at ply distance 1, MATE - 1.
C6_MateInOne ==
    Done(Main) /\ board[Main].side = "WHITE" /\ mates[Main] # {}
               /\ depthRead[Main] >= 2 =>
        /\ result[Main] \in mates[Main]
        /\ reported[Main].score = MATE - 1

C6_Witness ==
    /\ Done(Main)
    /\ board[Main].side = "WHITE"
    /\ depthRead[Main] = 3
    /\ mates[Main] = {2}
    /\ result[Main] = 2
    /\ reported[Main].score = MATE - 1

\* C7 as stated: a position at which the recursion stops, by depth or by
\* having no legal moves, that is a stalemate scores 0.
C7_Original ==
    \A k \in Returning(Main) :
        stack[Main][k].kind = "stalemate" => stack[Main][k].eval = 0

\* C7, amended: a stalemate position that minimax reaches with depth left
\* (depth # 0) scores 0; at depth 0 the static evaluation is returned.
C7_Stalemate ==
    \A k \in Returning(Main) :
        stack[Main][k].kind = "stalemate" /\ stack[Main][k].depth # 0 =>
            stack[Main][k].eval = 0

C7_Witness ==
    \E k \in Returning(Main) :
        /\ stack[Main][k].kind = "stalemate"
        /\ stack[Main][k].depth = 1
        /\ stack[Main][k].alpha = 1
        /\ stack[Main][k].eval = 0

\* C8: getBestMove resets the node counter to 0 on entry, the counter never
\* decreases while the call runs, and the count the call reports is the
\* number of minimax calls it made itself, whatever an earlier call left.
C8_NodeCount ==
    [][/\ startTime' # startTime => nodesSearched' = 0
       /\ pc[Main] = "root" => nodesSearched' >= nodesSearched
       /\ pc[Main] = "root" /\ pc'[Main] = "done" =>
              reported'[Main].nodes = calls'[Main]]_vars

C8_Witness ==
    /\ Done(Main)
    /\ startTime = 2
    /\ calls[Main] = 2
    /\ reported[Main].nodes = 2
    /\ nodesSearched = 2

\* C9: when two getBestMove invocations on the same engine interleave, each
\* reports as its node count the number of minimax calls it made itself.
C9_Isolation ==
    \A i \in Inv :
        Done(i) /\ ~Empty(board[i].size) => reported[i].nodes = calls[i]

\* C10: no minimax activation is more than maxDepth plies below the root.
C10_DepthBounded ==
    \A k \in 1..Len(stack[Main]) :
        stack[Main][k].pc # "enter" => k <= depthRead[Main]

\* the position an activation is expected to hold: the moves chosen by
\* getBestMove and by the activations above it, in order
PathTo(i, k) ==
    [j \in 1..k |-> IF j = 1 THEN idx[i] ELSE stack[i][j - 1].idx]

\* C12: the board handed to getBestMove is the same position throughout and
\* after the call, the board of every minimax activation is the position it
\* was handed, whatever was searched below it, and every child works on the
\* position of its parent with exactly one more move made.
C12_CopyBeforeMutate ==
    /\ pc[Main] # "idle" => board[Main].pos = <<>>
    /\ \A k \in 1..Len(stack[Main]) :
          stack[Main][k].board = PathTo(Main, k)

C12_Witness ==
    /\ Len(stack[Main]) = 3
    /\ stack[Main][3].pc = "ret"
    /\ stack[Main][2].idx = 2
    /\ stack[Main][2].board = <<idx[Main], stack[Main][1].idx>>
    /\ board[Main].pos = <<>>

\* C13: getBestMove on a position with at least one legal move returns one
\* of the moves of the list, never the sentinel move, and the best score it
\* reports is the score of one of the moves, not INT_MIN or INT_MAX.
C13_RootReturnsLegalMove ==
    Done(Main) /\ ~Empty(board[Main].size) =>
        /\ result[Main] \in 1..board[Main].size
        /\ result[Main] # NoMove
        /\ reported[Main].score \notin {INT_MIN, INT_MAX}
        /\ reported[Main].score = scores[Main][result[Main]]

C13_Witness ==
    /\ Done(Main)
    /\ board[Main].size = 2
    /\ board[Main].side = "BLACK"
    /\ depthRead[Main] = 2
    /\ result[Main] = 2
    /\ reported[Main].score = -1

\* C17: a position with no legal moves and the side to move in check, met
\* with depth greater than 0, is scored -(20000 - (maxDepth - depth)) when
\* the side to move is the maximizing one and +(20000 - (maxDepth - depth))
\* otherwise: negative for a mated maximizer, positive for a mated minimizer.
C17_CheckmateScore ==
    \A k \in Returning(Main) :
        LET f == stack[Main][k]
            d == 20000 - (depthRead[Main] - f.depth)
        IN f.kind = "checkmate" /\ f.depth > 0 =>
              /\ f.maximizingPlayer => f.eval = -d /\ f.eval < 0
              /\ ~f.maximizingPlayer => f.eval = d /\ f.eval > 0

C17_Witness ==
    /\ depthRead[Main] = 3
    /\ Len(stack[Main]) = 2
    /\ stack[Main][2].pc = "ret"
    /\ stack[Main][2].kind = "checkmate"
    /\ stack[Main][2].depth = 1
    /\ stack[Main][2].maximizingPlayer
    /\ stack[Main][2].eval = -19998

\* C18: an activation with depth 0 returns the static evaluation of its
\* position without generating moves, whether the position is open, a
\* checkmate or a stalemate.
C18_BaseCaseOrder ==
    \A k \in Returning(Main) :
        LET f == stack[Main][k]
        IN f.depth = 0 =>
              /\ ~f.generated
              /\ f.evaluated
              /\ f.eval = f.static

C18_Witness ==
    /\ Len(stack[Main]) = 2
    /\ stack[Main][2].pc = "ret"
    /\ stack[Main][2].depth = 0
    /\ stack[Main][2].kind = "checkmate"
    /\ stack[Main][2].eval = 1
    /\ ~stack[Main][2].generated

\* the window activation k was called with
EntryAlpha(i, k) == IF k = 1 THEN INT_MIN ELSE stack[i][k - 1].alpha
EntryBeta(i, k) == IF k = 1 THEN INT_MAX ELSE stack[i][k - 1].beta

\* C19: in an activation that searches moves, alpha is the entry alpha
\* raised to the running maximum (maximizer) and beta the entry beta lowered
\* to the running minimum (minimizer), the other end of the window is left
\* alone, the loop goes on only while beta > alpha, and an activation that
\* returns with moves left unsearched has beta <= alpha.
C19_CutoffRule ==
    \A k \in 1..Len(stack[Main]) :
        LET f == stack[Main][k]
        IN f.pc # "enter" /\ f.generated /\ f.kind = "open" =>
              /\ f.maximizingPlayer =>
                    /\ f.alpha = Max(EntryAlpha(Main, k), f.eval)
                    /\ f.beta = EntryBeta(Main, k)
              /\ ~f.maximizingPlayer =>
                    /\ f.beta = Min(EntryBeta(Main, k), f.eval)
                    /\ f.alpha = EntryAlpha(Main, k)
              /\ f.pc = "loop" => f.beta > f.alpha
              /\ f.pc = "ret" /\ f.idx < f.size => f.beta <= f.alpha

C19_Witness ==
    /\ Len(stack[Main]) = 2
    /\ stack[Main][2].pc = "ret"
    /\ stack[Main][2].size = 2
    /\ stack[Main][2].idx = 1
    /\ stack[Main][2].beta = stack[Main][2].alpha
    /\ stack[Main][2].maximizingPlayer

\* C20: every minimax call, a leaf included, adds exactly one to the node
\* counter: while getBestMove runs the counter is the number of minimax
\* calls that have got past their first statement, and the count in hand
\* when getBestMove returns is the number of minimax calls made; the call
\* of getBestMove is not counted.
C20_OncePerCall ==
    /\ pc[Main] = "root" =>
          nodesSearched = calls[Main] -
              (IF stack[Main] # <<>> /\ Top(stack[Main]).pc = "enter"
               THEN 1 ELSE 0)
    /\ Done(Main) => /\ reported[Main].nodes = calls[Main]
                     /\ calls[Main] >= board[Main].size

C20_Witness ==
    /\ Done(Main)
    /\ depthRead[Main] = 2
    /\ board[Main].size = 2
    /\ calls[Main] = 5
    /\ reported[Main].nodes = 5

\* C11: two getBestMove calls on the same position at the same depth, with
\* the board and the evaluator answering alike for every position, return
\* the same move, the same score and the same node count.
C11_Deterministic ==
    (\A i \in Inv : Done(i)) =>
        \A i \in Inv :
            /\ result[i] = result[Main]
            /\ reported[i].score = reported[Main].score
            /\ reported[i].nodes = reported[Main].nodes

C11_Witness ==
    /\ \A i \in Inv : Done(i) /\ result[i] = 2 /\ reported[i].nodes = 4
    /\ startTime = 2
    /\ depthRead[Main] = 2

\* evaluate has run on the position
Evaluated == terms # NoTerms

\* C15: the material term is the sum of the fixed values of the WHITE
\* pieces minus the sum of the fixed values of the BLACK pieces: it is 0 on
\* the starting position and on every position where both sides hold the
\* same pieces, and it is off by the value of the piece when a piece has
\* been captured: down for a WHITE piece, up for a BLACK one.
C15_MaterialBaseline ==
    Evaluated =>
        LET held(color) ==
                [type \in PieceTypes |->
                    Cardinality({s \in Squares : position[s].type = type
                                     /\ position[s].color = color})]
            lost(color) == {type \in PieceTypes : held(color)[type] <
                                                  held(Opponent(color))[type]}
        IN /\ held("WHITE") = held("BLACK") => terms.material = 0
           /\ position = StartPosition => terms.material = 0
           /\ \A type \in lost("WHITE") :
                 terms.material = -PieceValues[type]
           /\ \A type \in lost("BLACK") :
                 terms.material = PieceValues[type]

C15_Witness ==
    /\ Evaluated
    /\ position[Sq(3, 0)].type # "QUEEN"
    /\ \A s \in Squares :
          ~(position[s].type = "QUEEN" /\ position[s].color = "WHITE")
    /\ position[Sq(3, 7)].type = "QUEEN"
    /\ terms.material = -PieceValues["QUEEN"]

\* C14: evaluate of the colour-mirrored position is the negation of
\* evaluate of the position, for every position, those with two pawns of one
\* colour on a file included.
C14_SignSymmetry ==
    Evaluated => mirrorTerms.total = -terms.total

\* no king of the colour stands on the board
KingMissing(color) ==
    \A s \in Squares :
        ~(position[s].type = "KING" /\ position[s].color = color)

\* C16: on a position without a king of some colour, the castling term, the
\* king pawn shield term and the early king movement term charge nothing to
\* that colour, so each of them is what it charges to the other colour, and
\* every square the three terms hand to getPiece is on the board.
C16_MissingKing ==
    Evaluated =>
        /\ \A color \in Colors :
              KingMissing(color) =>
                 /\ kingTerms.side[color] =
                       [earlyKing |-> 0, castling |-> 0, shield |-> 0]
                 /\ terms.earlyKing =
                       kingTerms.side[Opponent(color)].earlyKing
                 /\ terms.castling = kingTerms.side[Opponent(color)].castling
                 /\ terms.shield = kingTerms.side[Opponent(color)].shield
        /\ \A q \in ScanAsked \cup kingTerms.asked : IsValid(q[1], q[2])

C16_Witness ==
    /\ Evaluated
    /\ KingMissing("WHITE")
    /\ ~KingMissing("BLACK")
    /\ position[Sq(5, 2)] = [type |-> "PAWN", color |-> "WHITE"]
    /\ position[Sq(6, 0)].color = "BLACK"
    /\ kingTerms.side["WHITE"] =
          [earlyKing |-> 0, castling |-> 0, shield |-> 0]
    /\ terms.castling = -40
    /\ terms.shield > 0
    /\ <<5, 4>> \in kingTerms.asked

\* the sum of the terms the table lists
TableSum ==
    terms.material + terms.placement + terms.center + terms.queen
    + terms.development + terms.earlyKing + terms.castling
    + terms.doubleMoves + terms.undefended + terms.shield + terms.fPawn

\* C21 as stated: evaluate is exactly the sum of the eleven terms of the
\* table (material, piece placement, center control, early queen
\* development, piece development, early king movement, castling, pawn
\* double-move, undefended pawns, king pawn shield, early f-pawn push).
C21_Original ==
    Evaluated => terms.total = TableSum

\* C21 amended: evaluate is the sum of the eleven terms of the table and of
\* a twelfth term, the development of minor pieces for defense; the
\* mobility, pawn structure and king safety terms are 0 on every board and
\* are no part of the sum.
C21_TermSum ==
    Evaluated =>
        /\ terms.total = TableSum + terms.minorDefense
        /\ evaluateMobility(Board(position)) = 0
        /\ evaluatePawnStructure(Board(position)) = 0
        /\ evaluateKingSafety(Board(position)) = 0

C21_Witness ==
    /\ Evaluated
    /\ position[Sq(0, 0)] = [type |-> "QUEEN", color |-> "BLACK"]
    /\ position[Sq(1, 0)] = [type |-> "KNIGHT", color |-> "WHITE"]
    /\ terms.minorDefense = 85
    /\ terms.total = TableSum + 85

\* C22: every square the pawn checks around a knight and the king pawn
\* shield hand to getPiece or isUnderAttack is on the board, also for a
\* knight on an edge file or rank; there the checks on the side that is off
\* the board are skipped and those on the other side are made: an enemy
\* pawn standing where it attacks the knight is charged with 25.
C22_OffBoard ==
    Evaluated =>
        /\ \A q \in ScanAsked \cup kingTerms.asked : IsValid(q[1], q[2])
        /\ \A s \in DOMAIN probes.knights :
              LET color == position[s].color
                  ahead == IF color = "WHITE" THEN 1 ELSE -1
                  beside == {f \in {FileOf(s) - 1, FileOf(s) + 1} :
                                IsValid(f, RankOf(s) + ahead)}
                  pawns == {f \in beside :
                               position[Sq(f, RankOf(s) + ahead)] =
                                   [type |-> "PAWN", color |-> Opponent(color)]}
              IN /\ \A q \in probes.knights[s].asked : IsValid(q[1], q[2])
                 /\ \A f \in beside :
                       <<f, RankOf(s) + ahead>> \in probes.knights[s].asked
                 /\ probes.knights[s].threats >= 25 * Cardinality(pawns)

C22_Witness ==
    /\ Evaluated
    /\ position[Sq(7, 2)] = [type |-> "KNIGHT", color |-> "WHITE"]
    /\ position[Sq(6, 3)] = [type |-> "PAWN", color |-> "BLACK"]
    /\ probes.knights[Sq(7, 2)].threats = 25
    /\ <<6, 3>> \in probes.knights[Sq(7, 2)].asked
    /\ \A q \in probes.knights[Sq(7, 2)].asked : q[1] = 6

\* the rank of the least advanced pawn of the colour on the file of the
\* evaluated position, -1 when the colour has no pawn there
LeastAdvanced(file, color) ==
    LET ranks == {r \in 0..7 : position[Sq(file, r)] =
                                   [type |-> "PAWN", color |-> color]}
    IN IF ranks = {} THEN -1
       ELSE IF color = "WHITE"
       THEN CHOOSE r \in ranks : \A q \in ranks : r <= q
       ELSE CHOOSE r \in ranks : \A q \in ranks : r >= q

\* C23: the pawn the pawn double-move term examines for a side on a file
\* is the first pawn of that side met from the side's own back rank, that
\* is, the side's least advanced pawn on the file.
C23_PawnSelection ==
    Evaluated /\ probes.doubleMovesActive =>
        \A color \in Colors, file \in 0..7 :
            probes.pawns[color][file].rank = LeastAdvanced(file, color)

\* the square of the evaluated position is attacked by a piece of the colour
Attacked(s, byColor) == s \in AttackedBy(position, byColor)

\* the pawn on (file, rank) attacks one of d4, d5, e4, e5
ControlsCenter(file, rank, color) ==
    \E c \in CenterSquares :
        /\ Abs(file - c[1]) = 1
        /\ c[2] = rank + (IF color = "WHITE" THEN 1 ELSE -1)

\* the ranks the pawn on the rank has advanced from its start rank
Advance(rank, color) == IF color = "WHITE" THEN rank - 1 ELSE 6 - rank

\* the number of pieces on the evaluated position
PieceCount == Cardinality({s \in Squares : ~IsEmpty(position[s])})

\* the pawn double-move term is the sum of what it charges for the files
DoubleMovesSum ==
    terms.doubleMoves =
        SumTo([file \in 0..7 |-> probes.pawns["BLACK"][file].charged
                                  - probes.pawns["WHITE"][file].charged], 7)

\* C24 as stated: with 28 pieces or more, an examined pawn that has
\* advanced more than two ranks and is not attacked costs its side 20, 10
\* more on the d- or e-file, and 10 more exactly when it does not
\* diagonally control a center square, on whatever file it stands.
C24_Original ==
    Evaluated =>
        /\ probes.doubleMovesActive = (PieceCount >= 28)
        /\ DoubleMovesSum
        /\ \A color \in Colors, file \in 0..7 :
              LET pawn == probes.pawns[color][file]
              IN pawn.rank # -1 =>
                    pawn.charged =
                       IF Advance(pawn.rank, color) > 2
                          /\ ~Attacked(Sq(file, pawn.rank), Opponent(color))
                       THEN 20 + (IF file \in {3, 4} THEN 10 ELSE 0)
                               + (IF ~ControlsCenter(file, pawn.rank, color)
                                  THEN 10 ELSE 0)
                       ELSE 0

\* C24 amended: the last 10 is charged exactly when the pawn does not
\* diagonally control a center square and stands on one of the files c, d,
\* e, f; on the files a, b, g, h the pawn costs 20.
C24_Amounts ==
    Evaluated =>
        /\ probes.doubleMovesActive = (PieceCount >= 28)
        /\ DoubleMovesSum
        /\ \A color \in Colors, file \in 0..7 :
              LET pawn == probes.pawns[color][file]
              IN pawn.rank # -1 =>
                    pawn.charged =
                       IF Advance(pawn.rank, color) > 2
                          /\ ~Attacked(Sq(file, pawn.rank), Opponent(color))
                       THEN 20 + (IF file \in {3, 4} THEN 10 ELSE 0)
                               + (IF ~ControlsCenter(file, pawn.rank, color)
                                     /\ file \in 2..5
                                  THEN 10 ELSE 0)
                       ELSE 0

C24_Witness ==
    /\ Evaluated
    /\ PieceCount = 32
    /\ probes.pawns["WHITE"][0] = [rank |-> 4, charged |-> 20]
    /\ probes.pawns["BLACK"][0] = [rank |-> 6, charged |-> 0]
    /\ terms.doubleMoves = -20

\* what the king pawn shield term charges the colour
ShieldCharge(color) == (-Sign(color)) * kingTerms.side[color].shield

\* the back rank of the colour and the direction its pawns move in
HomeRank(color) == IF color = "WHITE" THEN 0 ELSE 7
Ahead(color) == IF color = "WHITE" THEN 1 ELSE -1

\* the king of the colour stands on the g-file of its back rank and its
\* f-pawn one square ahead of its start
ShieldPattern(color) ==
    /\ position[Sq(6, HomeRank(color))] = [type |-> "KING", color |-> color]
    /\ position[Sq(5, HomeRank(color) + 2 * Ahead(color))] =
           [type |-> "PAWN", color |-> color]

\* the enemy rooks and queens on the f-file beyond the pushed pawn
OnOpenFile(color) ==
    {r \in 0..7 :
        /\ (r - (HomeRank(color) + 2 * Ahead(color))) * Ahead(color) > 0
        /\ position[Sq(5, r)].color = Opponent(color)
        /\ position[Sq(5, r)].type \in {"ROOK", "QUEEN"}}

\* an enemy bishop or queen looks at the king along the diagonal through
\* the square the f-pawn has left
OnOpenDiagonal(color) ==
    \E s \in Ray(position, 6, HomeRank(color), <<-1, Ahead(color)>>) :
        /\ position[s].color = Opponent(color)
        /\ position[s].type \in {"BISHOP", "QUEEN"}

\* C25: while at most 6 pieces are developed, a side whose king stands on
\* the g-file of its back rank with the f-pawn advanced one square is
\* charged 80, 50 more for an enemy rook or queen on the f-file beyond the
\* pawn and 60 more when an enemy bishop or queen stands on the diagonal to
\* the king that the advance has opened.
C25_ShieldPenalties ==
    Evaluated /\ DevelopedPieces(Board(position)) <= 6 =>
        \A color \in Colors :
            ShieldPattern(color) =>
                ShieldCharge(color) =
                    80 + 50 * Cardinality(OnOpenFile(color))
                       + (IF OnOpenDiagonal(color) THEN 60 ELSE 0)

\* the king of the colour on the evaluated position, as a set
KingOf(color) ==
    {s \in Squares : position[s] = [type |-> "KING", color |-> color]}

\* what the castling term and the early king movement term give the king
\* of the colour: 40 on a castled square, 15 and 10 at home for the rooks
\* in the corners, and a charge of 50 plus 10 per rank off the back rank
KingAmounts(color) ==
    \A k \in KingOf(color) :
        LET home == HomeRank(color)
            rook == [type |-> "ROOK", color |-> color]
        IN /\ Sign(color) * kingTerms.side[color].castling =
                 IF k \in {Sq(6, home), Sq(2, home)} THEN 40
                 ELSE IF k = Sq(4, home)
                 THEN (IF position[Sq(7, home)] = rook THEN 15 ELSE 0)
                      + (IF position[Sq(0, home)] = rook THEN 10 ELSE 0)
                 ELSE 0
           /\ (-Sign(color)) * kingTerms.side[color].earlyKing =
                 IF RankOf(k) # home
                 THEN 50 + 10 * Abs(RankOf(k) - home) ELSE 0

\* the squares on which the king of the colour would receive a castling
\* bonus and an early king movement penalty at once
BothApplyOn(color) ==
    {s \in Squares :
        \E k \in KingOf(color) :
            LET b == [at |-> Relocated(position, k, s)]
            IN CastlingAt(b, s) # 0 /\ EarlyKingAt(b, s) # 0}

\* C26 as stated: the two terms give the amounts above, and the same king
\* can receive a castling bonus and an early king movement penalty at
\* once: there is a square on which it does.
C26_Original ==
    Evaluated =>
        \A color \in Colors :
            /\ KingAmounts(color)
            /\ KingOf(color) # {} => BothApplyOn(color) # {}

\* C26 amended: the two terms give the amounts above, and no king receives
\* a castling bonus and an early king movement penalty at once, on
\* whatever square it stands: the bonus needs the king on its back rank,
\* the penalty needs it off that rank.
C26_KingTerms ==
    Evaluated =>
        \A color \in Colors :
            /\ KingAmounts(color)
            /\ ~(kingTerms.side[color].castling # 0
                   /\ kingTerms.side[color].earlyKing # 0)
            /\ BothApplyOn(color) = {}

C26_Witness ==
    /\ Evaluated
    /\ KingOf("WHITE") = {Sq(6, 1)}
    /\ KingOf("BLACK") = {Sq(6, 7)}
    /\ kingTerms.side["WHITE"].earlyKing = -60
    /\ kingTerms.side["WHITE"].castling = 0
    /\ kingTerms.side["BLACK"].castling = -40
    /\ kingTerms.side["BLACK"].earlyKing = 0

\* the pawns of the evaluated position that are attacked and not defended
Undefended ==
    {s \in Squares :
        /\ position[s].type = "PAWN"
        /\ Attacked(s, Opponent(position[s].color))
        /\ ~Attacked(s, position[s].color)}

\* an attacker of the pawn on s can be captured by the pawn's side
AttackerCapturable(s) ==
    \E a \in Squares :
        /\ position[a].color = Opponent(position[s].color)
        /\ s \in Reach(position, a)
        /\ Attacked(a, position[s].color)

\* C27: while at most 6 pieces are developed, each attacked and undefended
\* pawn costs its side 120, gets the potential-defender bonus added back
\* and gets 100 when at least one of its attackers can be captured by its
\* side, 0 otherwise: 100 once per pawn, not once per attacker.
C27_UndefendedPawns ==
    Evaluated =>
        IF DevelopedPieces(Board(position)) > 6
        THEN terms.undefended = 0
        ELSE /\ DOMAIN probes.undefended = Undefended
             /\ \A s \in Undefended :
                   probes.undefended[s].capture =
                       IF AttackerCapturable(s) THEN 100 ELSE 0
             /\ terms.undefended =
                   SumSquares([s \in Squares |->
                       IF s \in Undefended
                       THEN Sign(position[s].color) *
                            (-120 + probes.undefended[s].defenders
                             + probes.undefended[s].capture)
                       ELSE 0])

\* the side to move after ply moves have been made from a position in which
\* side is to move, each move handing the turn to the other side
ToMove(side, ply) == IF ply % 2 = 0 THEN side ELSE Opponent(side)

\* C28: in every minimax activation the maximizing flag is true exactly when
\* WHITE is to move in the position the activation was handed, and so a
\* checkmated WHITE is scored below zero and a checkmated BLACK above zero.
C28_FlagIsWhiteToMove ==
    /\ \A k \in 1..Len(stack[Main]) :
          stack[Main][k].maximizingPlayer
             <=> (ToMove(board[Main].side, k) = "WHITE")
    /\ \A e \in found[Main] :
          /\ ToMove(board[Main].side, e[1]) = "WHITE" => e[2] < 0
          /\ ToMove(board[Main].side, e[1]) = "BLACK" => e[2] > 0

C28_Witness ==
    /\ Len(stack[Main]) = 3
    /\ board[Main].side = "BLACK"
    /\ \E e \in found[Main], g \in found[Main] : e[2] < 0 /\ g[2] > 0

\* C29: in a search started with maxDepth >= 1 the activation at ply k has
\* depth = maxDepth - k with 0 <= depth <= maxDepth - 1, and every checkmate
\* score has a magnitude from 20000 - (maxDepth - 1) to 19999, never 20000.
C29_DepthAndMateRange ==
    depthRead[Main] >= 1 =>
       /\ \A k \in 1..Len(stack[Main]) :
             LET f == stack[Main][k]
             IN /\ f.depth = depthRead[Main] - k
                /\ 0 <= f.depth
                /\ f.depth <= depthRead[Main] - 1
       /\ \A e \in found[Main] :
             /\ e[1] >= 1
             /\ Abs(e[2]) = MATE - e[1]
             /\ MATE - (depthRead[Main] - 1) <= Abs(e[2])
             /\ Abs(e[2]) <= MATE - 1
             /\ Abs(e[2]) # MATE

C29_Witness ==
    /\ depthRead[Main] = MaxDepthCfg
    /\ Len(stack[Main]) = MaxDepthCfg
    /\ Top(stack[Main]).depth = 0
    /\ \E e \in found[Main] : Abs(e[2]) = MATE - 1
    /\ \E e \in found[Main] : Abs(e[2]) = MATE - (depthRead[Main] - 1)

\* C30: the positions the search with cutoffs runs minimax on are among those
\* the search without cutoffs runs it on, so its node count is not the
\* larger one; every root move is searched, each with the full window, and
\* the node count is at least the number of root moves.
C30_PrunedWithinPlain ==
    /\ \A i \in Inv :
          Len(stack[i]) >= 1 /\ stack[i][1].pc = "enter" =>
             stack[i][1].alpha = INT_MIN /\ stack[i][1].beta = INT_MAX
    /\ Done(Main) =>
          /\ Len(scores[Main]) = board[Main].size
          /\ \A m \in 1..board[Main].size : <<m>> \in visited[Main]
          /\ reported[Main].nodes = Cardinality(visited[Main])
          /\ reported[Main].nodes >= board[Main].size
    /\ Done(Main) /\ Done(Plain) =>
          /\ visited[Main] \subseteq visited[Plain]
          /\ reported[Plain].nodes = Cardinality(visited[Plain])
          /\ reported[Main].nodes <= reported[Plain].nodes

C30_Witness ==
    /\ Done(Main) /\ Done(Plain)
    /\ board[Main].size = MaxBranch
    /\ visited[Main] # visited[Plain]
    /\ reported[Main].nodes < reported[Plain].nodes

====
